---- MODULE Spec2Model ----
(***************************************************************************)
(* State-machine model of the SQL-to-Firestore migration tool.            *)
(*                                                                         *)
(* Part 1: the identifier mapper (utils/uuid-mapper): the module-level    *)
(* tables idMappings / reverseIdMappings of one Node process, the file    *)
(* the tables are saved to, and the operations getOrCreateUUID, getUUID,  *)
(* saveMappingsToFile and loadMappingsFromFile.                           *)
(*                                                                         *)
(* Part 2: the migrations that call the mapper: the listings migration    *)
(* with its three tasks under Promise.all, and the process runs of the    *)
(* entry point (all collections, or one --collection at a time) writing   *)
(* documents to Firestore.                                                 *)
(*                                                                         *)
(* JavaScript values: a source id is a tagged record (null, undefined, a  *)
(* number or a string); a stable id is a string, with Null standing for   *)
(* a returned null.  A JavaScript object is a function whose DOMAIN is    *)
(* the set of its own keys.                                                *)
(***************************************************************************)
EXTENDS Integers, Sequences, FiniteSets, TLC

VARIABLES
  idMappings,         \* forward tables of the running process: entity -> (id -> uuid), and _meta
  reverseIdMappings,  \* reverse tables of the running process: entity -> (uuid -> id)
  file,               \* the mappings file on disk (NoFile when absent)
  last,               \* the step taken last: [op, noref, ok, fresh, kept]
  returned,           \* <<entity, id, uuid>> for every getOrCreateUUID result of this run
  saved,              \* idMappings as it was when the file on disk was written
  tables,             \* the tables parsed from the SQL dump: table name -> rows
  todo,               \* the collections the running process has still to migrate
  docs,               \* the Firestore database: <<collection, docId>> -> document
  pos,                \* listings migration: task -> number of its items transformed
  obs,                \* listings migration: task -> the docIds its transforms returned
  input,              \* dump parser: what this run of the parser was given
  pc,                 \* dump parser: the step the parser has reached
  output              \* dump parser: what the parser has produced so far

vars == <<idMappings, reverseIdMappings, file, last, returned, saved,
          tables, todo, docs, pos, obs, input, pc, output>>

migrationVars == <<tables, todo, docs, pos, obs>>

parserVars == <<input, pc, output>>

(***************************************************************************)
(* Bounds of the model.                                                    *)
(***************************************************************************)
MaxId == 2          \* source ids are 1..MaxId (and the invalid ones)
MaxMappings == 3    \* no mapping is created once _meta.totalMappings has reached this
MaxCallId == 1      \* setUUID, getUUID and mapIdsToUUIDs get the source ids 0..MaxCallId

(***************************************************************************)
(* JavaScript values.                                                      *)
(***************************************************************************)
Null == "null"
JsNull == [t |-> "null"]
JsUndefined == [t |-> "undefined"]
JsNumber(n) == [t |-> "number", n |-> n]
JsString(s) == [t |-> "string", s |-> s]

Digits == <<"0", "1", "2", "3", "4", "5", "6", "7", "8", "9">>

RECURSIVE NumberToString(_)
\* String(n) of a non-negative integer
NumberToString(n) ==
  IF n < 10 THEN Digits[n + 1]
  ELSE NumberToString(n \div 10) \o Digits[(n % 10) + 1]

\* String(oldId)
String(v) ==
  CASE v.t = "number" -> NumberToString(v.n)
    [] v.t = "string" -> v.s
    [] v.t = "null" -> "null"
    [] v.t = "undefined" -> "undefined"

\* (mutant) the check that forgets the number 0
NoReferenceForgetsZero(v) == v.t \in {"null", "undefined"}

\* !oldId || oldId === 0
NoReference(v) ==
  \/ v.t \in {"null", "undefined"}
  \/ v.t = "number" /\ v.n = 0
  \/ v.t = "string" /\ v.s = ""

EmptyObject == [k \in {} |-> k]

\* obj[k] = v
Put(obj, k, v) == [x \in DOMAIN obj \cup {k} |-> IF x = k THEN v ELSE obj[x]]

\* (mutant) no entry is ever found
TruthyNever(obj, k) == FALSE

\* obj?.[k] is truthy
Truthy(obj, k) == k \in DOMAIN obj /\ obj[k] # "" /\ obj[k] # Null

\* (mutant) the keys the target has already are kept
ObjectAssignKeepsTarget(target, source) ==
  [k \in DOMAIN target \cup DOMAIN source |->
     IF k \in DOMAIN target THEN target[k] ELSE source[k]]

\* Object.assign(target, source): every own key of source replaces target's
ObjectAssign(target, source) ==
  [k \in DOMAIN target \cup DOMAIN source |->
     IF k \in DOMAIN source THEN source[k] ELSE target[k]]

(***************************************************************************)
(* The mapper's constants and tables.                                      *)
(***************************************************************************)
UUID_NAMESPACE == "6ba7b810-9dad-11d1-80b4-00c04fd430c8"

\* the name-based hash, taken as injective on (namespace, seed)
uuidv5(seed, namespace) == "v5(" \o namespace \o "," \o seed \o ")"

listingEntities == {"businesses", "franchise", "investors", "startups", "digital_assets"}

\* the entity tables idMappings is created with
KnownEntities ==
  {"users", "businesses", "franchise", "investors", "listings", "plans", "reviews",
   "subscriptions", "transactions", "chatrooms", "messages", "industries",
   "sub_industries", "cities", "states"}

\* _meta; lastUpdated holds the wall-clock time of the last update, which no
\* operation reads: it is left out
Meta(total) == [totalMappings |-> total]

\* the module-level tables of a process that has just started
InitialIdMappings ==
  [k \in KnownEntities \cup {"_meta"} |->
     IF k = "_meta" THEN Meta(0) ELSE EmptyObject]

InitialReverse == EmptyObject

Mapper(fwd, rev) == [idMappings |-> fwd, reverseIdMappings |-> rev]

DefaultOptions ==
  [deterministic |-> TRUE, updateReverse |-> TRUE, namespaceOverride |-> Null,
   entityPrefix |-> ""]

\* reverseIdMappings[entity][uuid] = id, creating the entity's table when absent
PutReverse(rev, entity, uuid, id) ==
  Put(rev, entity, Put(IF entity \in DOMAIN rev THEN rev[entity] ELSE EmptyObject, uuid, id))

\* idMappings._meta.totalMappings++
TouchMeta(fwd) ==
  [fwd EXCEPT !["_meta"] = Meta(@.totalMappings + 1)]

\* (mutant) the seed leaves the entity type out
NewUuidSeedWithoutEntity(entity, id, options, v4) == uuidv5(id, UUID_NAMESPACE)

\* the uuid a new mapping gets: v5 of the seed, or the v4 value drawn
NewUuid(entity, id, options, v4) ==
  IF options.deterministic
  THEN uuidv5(options.entityPrefix \o entity \o ":" \o id,
              IF options.namespaceOverride # Null THEN options.namespaceOverride
              ELSE UUID_NAMESPACE)
  ELSE v4

\* the mirror into the consolidated listings tables
MirrorToListings(m, entity, id, uuid, updateReverse) ==
  IF entity \in listingEntities
  THEN Mapper([m.idMappings EXCEPT !["listings"] = Put(@, id, uuid)],
              IF updateReverse
              THEN PutReverse(m.reverseIdMappings, "listings", uuid, id)
              ELSE m.reverseIdMappings)
  ELSE m

\* getOrCreateUUID(entity, oldId, options): the tables after the call and its result
getOrCreateUUID(m, entity, oldId, options, v4) ==
  IF NoReference(oldId) THEN [m |-> m, ret |-> Null]
  ELSE
    LET id == String(oldId)
        fwd0 == IF entity \in DOMAIN m.idMappings THEN m.idMappings
                ELSE Put(m.idMappings, entity, EmptyObject)
    IN  IF Truthy(fwd0[entity], id)
        THEN [m |-> Mapper(fwd0, m.reverseIdMappings), ret |-> fwd0[entity][id]]
        ELSE
          LET newUuid == NewUuid(entity, id, options, v4)
              fwd1 == [fwd0 EXCEPT ![entity] = Put(@, id, newUuid)]
              rev1 == IF options.updateReverse
                      THEN PutReverse(m.reverseIdMappings, entity, newUuid, id)
                      ELSE m.reverseIdMappings
              fwd2 == TouchMeta(fwd1)
          IN  [m |-> MirrorToListings(Mapper(fwd2, rev1), entity, id, newUuid,
                                      options.updateReverse),
               ret |-> newUuid]

\* getUUID(entity, oldId)
getUUID(m, entity, oldId) ==
  IF NoReference(oldId) THEN Null
  ELSE
    LET id == String(oldId)
    IN  IF entity \in DOMAIN m.idMappings /\ Truthy(m.idMappings[entity], id)
        THEN m.idMappings[entity][id]
        ELSE IF entity \in listingEntities /\ Truthy(m.idMappings["listings"], id)
        THEN m.idMappings["listings"][id]
        ELSE Null

\* (mutant) a lookup that creates the mapping it does not find
getUUIDCallCreates(m, entity, oldId) ==
  getOrCreateUUID(m, entity, oldId, DefaultOptions, Null)

\* getUUID(entity, oldId) as a call: the tables after it and its result; the
\* optional chaining idMappings[entity]?.[id] reads and assigns nothing
getUUIDCall(m, entity, oldId) == [m |-> m, ret |-> getUUID(m, entity, oldId)]

\* the listing variants in the order getOriginalId goes through them
listingEntitiesInOrder == <<"businesses", "franchise", "investors", "startups", "digital_assets">>

\* getOriginalId(entity, uuid)
getOriginalId(m, entity, uuid) ==
  LET rev == m.reverseIdMappings
      Has(e) == e \in DOMAIN rev /\ Truthy(rev[e], uuid)
  IN  IF uuid = Null \/ uuid = "" THEN Null
      ELSE IF Has(entity) THEN rev[entity][uuid]
      ELSE IF entity = "listings" /\ \E i \in 1..Len(listingEntitiesInOrder) :
                                        Has(listingEntitiesInOrder[i])
      THEN LET i == CHOOSE i \in 1..Len(listingEntitiesInOrder) :
                      /\ Has(listingEntitiesInOrder[i])
                      /\ \A j \in 1..(i - 1) : ~Has(listingEntitiesInOrder[j])
           IN  rev[listingEntitiesInOrder[i]][uuid]
      ELSE Null

\* setUUID past its guard: the entry, its reverse entry, _meta and the mirror
StoreUUID(m, entity, oldId, uuid, options) ==
  LET id == String(oldId)
      fwd0 == IF entity \in DOMAIN m.idMappings THEN m.idMappings
              ELSE Put(m.idMappings, entity, EmptyObject)
      fwd1 == [fwd0 EXCEPT ![entity] = Put(@, id, uuid)]
      rev1 == IF options.updateReverse
              THEN PutReverse(m.reverseIdMappings, entity, uuid, id)
              ELSE m.reverseIdMappings
  IN  MirrorToListings(Mapper(TouchMeta(fwd1), rev1), entity, id, uuid,
                       options.updateReverse)

\* (mutant) an existing mapping is kept as it is
setUUIDKeepsExisting(m, entity, oldId, uuid, options) ==
  IF NoReference(oldId) \/ uuid = Null \/ uuid = "" THEN m
  ELSE IF entity \in DOMAIN m.idMappings /\ Truthy(m.idMappings[entity], String(oldId))
  THEN m
  ELSE StoreUUID(m, entity, oldId, uuid, options)

\* setUUID(entity, oldId, uuid, options): the tables after the call
setUUID(m, entity, oldId, uuid, options) ==
  IF NoReference(oldId) \/ uuid = Null \/ uuid = "" THEN m
  ELSE StoreUUID(m, entity, oldId, uuid, options)

RECURSIVE mapIdsToUUIDs(_, _, _)
\* mapIdsToUUIDs(entity, oldIds) of an array: the ids getUUID finds, in order
mapIdsToUUIDs(m, entity, oldIds) ==
  IF oldIds = <<>> THEN [m |-> m, ret |-> <<>>]
  ELSE LET r == getUUIDCall(m, entity, Head(oldIds))
           rest == mapIdsToUUIDs(r.m, entity, Tail(oldIds))
       IN  [m |-> rest.m,
            ret |-> IF r.ret # Null THEN <<r.ret>> \o rest.ret ELSE rest.ret]

(***************************************************************************)
(* Persistence.                                                            *)
(***************************************************************************)
\* the entity tables of idMappings: Object.keys(idMappings) without _meta
EntityKeys(fwd) == DOMAIN fwd \ {"_meta"}

RECURSIVE CountMappings(_, _)
\* the sum over the entity tables of Object.keys(idMappings[entity]).length
CountMappings(fwd, entities) ==
  IF entities = {} THEN 0
  ELSE LET e == CHOOSE x \in entities : TRUE
       IN  Cardinality(DOMAIN fwd[e]) + CountMappings(fwd, entities \ {e})

\* JSON.parse(JSON.stringify(idMappings)): every table keeps its own keys and
\* their string values; a key whose value is no string or number is dropped
JsonRoundTrip(fwd) ==
  [k \in DOMAIN fwd |->
     IF k = "_meta" THEN fwd[k]
     ELSE [id \in {x \in DOMAIN fwd[k] : fwd[k][x] # Null} |-> fwd[k][id]]]

\* saveMappingsToFile(filePath); io is what the file system does: "ok",
\* "mkdir-throws" (before _meta is touched) or "write-throws" (after)
saveMappingsToFile(m, disk, io) ==
  IF io = "mkdir-throws" THEN [m |-> m, file |-> disk, ret |-> FALSE]
  ELSE
    LET fwd == [m.idMappings EXCEPT !["_meta"] =
                  Meta(CountMappings(m.idMappings, EntityKeys(m.idMappings)))]
        m1 == Mapper(fwd, m.reverseIdMappings)
    IN  IF io = "write-throws" THEN [m |-> m1, file |-> disk, ret |-> FALSE]
        ELSE [m |-> m1, file |-> [exists |-> TRUE, data |-> JsonRoundTrip(fwd)], ret |-> TRUE]

\* the numeric value of an integer-like key
KeyNumber(k) == CHOOSE n \in 0..(MaxId + 1) : NumberToString(n) = k

\* Object.entries(table).forEach(([id, uuid]) => reverse[uuid] = id) on top of
\* the reverse table there is: integer-like keys are visited in ascending
\* order, so of two ids with one uuid the greater stays
RebuildTable(old, table) ==
  [u \in DOMAIN old \cup {table[id] : id \in DOMAIN table} |->
     IF \E id \in DOMAIN table : table[id] = u
     THEN CHOOSE id \in DOMAIN table :
            /\ table[id] = u
            /\ \A other \in DOMAIN table :
                 table[other] = u => KeyNumber(other) <= KeyNumber(id)
     ELSE old[u]]

\* the loop over Object.keys(idMappings) that follows Object.assign
RebuildReverse(rev, fwd) ==
  [e \in DOMAIN rev \cup EntityKeys(fwd) |->
     IF e \in EntityKeys(fwd)
     THEN RebuildTable(IF e \in DOMAIN rev THEN rev[e] ELSE EmptyObject, fwd[e])
     ELSE rev[e]]

\* loadMappingsFromFile(filePath); io is "ok" or "read-throws"
loadMappingsFromFile(m, disk, io) ==
  IF ~disk.exists \/ io = "read-throws" THEN [m |-> m, ret |-> FALSE]
  ELSE
    LET fwd == ObjectAssign(m.idMappings, disk.data)
    IN  [m |-> Mapper(fwd, RebuildReverse(m.reverseIdMappings, fwd)), ret |-> TRUE]

(***************************************************************************)
(* Inputs.                                                                 *)
(***************************************************************************)
\* entity types the mapper is called with: two listing variants and the
\* consolidated type
EntityTypes == {"businesses", "franchise", "listings"}

\* entity types of the runs that save and load the file
PersistEntityTypes == {"businesses", "listings"}

ValidIds == {JsNumber(n) : n \in 1..MaxId} \cup {JsString(NumberToString(n)) : n \in 1..MaxId}
InvalidIds == {JsNull, JsUndefined, JsNumber(0)}
SourceIds == ValidIds \cup InvalidIds
IdKeys == {NumberToString(n) : n \in 1..MaxId}

NoFile == [exists |-> FALSE]

\* the tables of the dump the migrations modelled here read
TableNames == {"users", "user_plans", "businesses", "franchise", "investors"}

\* the tasks of the listings migration
TaskNames == {"businesses", "franchises", "investors"}

\* a dump without rows
NoRows == [t \in TableNames |-> <<>>]

RECURSIVE Ascending(_)
\* the numbers of S in ascending order, the order of the rows in the dump
Ascending(S) ==
  IF S = {} THEN <<>>
  ELSE LET m == CHOOSE x \in S : \A y \in S : y <= x
       IN  Append(Ascending(S \ {m}), m)

\* the rows of a table whose primary keys are the numbers of S
RowsWithIds(S) == [i \in 1..Cardinality(S) |-> [id |-> JsNumber(Ascending(S)[i])]]

\* op: the operation; noref: it was called with the source id 0, null or
\* undefined; ok: it returned a stable id (true, for save and load); fresh:
\* the tables were those of a process that has just started; kept: every
\* forward entry there was before the step is there after it, with its value
Step(op, noref, ok, fresh, kept) ==
  [op |-> op, noref |-> noref, ok |-> ok, fresh |-> fresh, kept |-> kept]

\* every entry of the forward tables before is an entry of the tables after
Kept(before, after) ==
  \A e \in EntityKeys(before) :
    /\ e \in EntityKeys(after)
    /\ \A id \in DOMAIN before[e] : id \in DOMAIN after[e] /\ after[e][id] = before[e][id]

M == Mapper(idMappings, reverseIdMappings)
FreshMapper == Mapper(InitialIdMappings, InitialReverse)

(***************************************************************************)
(* The state after the process has started and the actions.               *)
(***************************************************************************)
\* the process has just started; nothing is on disk
InitMapper ==
  /\ idMappings = InitialIdMappings
  /\ reverseIdMappings = InitialReverse
  /\ file = NoFile
  /\ last = Step("start", FALSE, TRUE, TRUE, TRUE)
  /\ returned = {}
  /\ saved = InitialIdMappings

\* no migration is running and Firestore is empty
InitMigration ==
  /\ todo = <<>>
  /\ docs = EmptyObject
  /\ pos = [t \in TaskNames |-> 0]
  /\ obs = [t \in TaskNames |-> <<>>]

\* the dump parser is not running
InitParser ==
  /\ input = EmptyObject
  /\ pc = "idle"
  /\ output = EmptyObject

Init ==
  /\ InitMapper
  /\ InitMigration
  /\ InitParser
  /\ tables = NoRows

\* the call creates no mapping beyond the bound of the model
WithinBound(entity, oldId) ==
  \/ idMappings["_meta"].totalMappings < MaxMappings
  \/ getOrCreateUUID(M, entity, oldId, DefaultOptions, Null).m.idMappings["_meta"]
       = idMappings["_meta"]

\* a transform calls getOrCreateUUID(entity, oldId); no caller in the
\* repository passes options
\* (observed: the result is recorded in returned)
GetOrCreate(entities, ids, observed) ==
  \E entity \in entities, oldId \in ids :
    LET r == getOrCreateUUID(M, entity, oldId, DefaultOptions, Null)
    IN  /\ WithinBound(entity, oldId)
        /\ idMappings' = r.m.idMappings
        /\ reverseIdMappings' = r.m.reverseIdMappings
        /\ last' = Step("getOrCreate", oldId \in InvalidIds, r.ret # Null, M = FreshMapper,
                         Kept(idMappings, r.m.idMappings))
        /\ returned' = IF r.ret = Null \/ ~observed THEN returned
                       ELSE returned \cup {<<entity, String(oldId), r.ret>>}
        /\ UNCHANGED <<file, saved>>
        /\ UNCHANGED migrationVars
        /\ UNCHANGED parserVars

\* a transform calls getUUID(entity, oldId)
Get(entities, ids) ==
  \E entity \in entities, oldId \in ids :
    /\ last' = Step("get", oldId \in InvalidIds, getUUID(M, entity, oldId) # Null,
                    M = FreshMapper, TRUE)
    /\ UNCHANGED <<idMappings, reverseIdMappings, file, returned, saved>>
    /\ UNCHANGED migrationVars
    /\ UNCHANGED parserVars

\* the process ends and the tool is started again: the module-level tables
\* are created anew, the file on disk stays
NewProcess ==
  /\ idMappings' = InitialIdMappings
  /\ reverseIdMappings' = InitialReverse
  /\ last' = Step("start", FALSE, TRUE, TRUE, TRUE)
  /\ returned' = {}
  /\ UNCHANGED <<file, saved>>
  /\ UNCHANGED migrationVars
  /\ UNCHANGED parserVars

\* saveMappingsToFile is called
Save ==
  \E io \in {"ok", "mkdir-throws", "write-throws"} :
    LET r == saveMappingsToFile(M, file, io)
    IN  /\ idMappings' = r.m.idMappings
        /\ reverseIdMappings' = r.m.reverseIdMappings
        /\ file' = r.file
        /\ saved' = IF r.ret THEN r.m.idMappings ELSE saved
        /\ last' = Step("save", FALSE, r.ret, M = FreshMapper, Kept(idMappings, r.m.idMappings))
        /\ UNCHANGED returned
        /\ UNCHANGED migrationVars
        /\ UNCHANGED parserVars

\* loadMappingsFromFile is called
Load ==
  \E io \in {"ok", "read-throws"} :
    LET r == loadMappingsFromFile(M, file, io)
    IN  /\ idMappings' = r.m.idMappings
        /\ reverseIdMappings' = r.m.reverseIdMappings
        /\ last' = Step("load", FALSE, r.ret, M = FreshMapper, Kept(idMappings, r.m.idMappings))
        /\ UNCHANGED <<file, returned, saved>>
        /\ UNCHANGED migrationVars
        /\ UNCHANGED parserVars

\* the mapper's calls within process runs that share nothing
Next ==
  \/ GetOrCreate(EntityTypes, SourceIds, TRUE)
  \/ Get(EntityTypes, SourceIds)
  \/ NewProcess

Spec == Init /\ [][Next]_vars

\* the mapper's calls with the mappings file, over several process runs
NextPersist ==
  \/ GetOrCreate(PersistEntityTypes, ValidIds, FALSE)
  \/ Save
  \/ Load
  \/ NewProcess

SpecPersist == Init /\ [][NextPersist]_vars

(***************************************************************************)
(* The mapper's other calls: setUUID, getUUID and mapIdsToUUIDs.          *)
(***************************************************************************)
\* entity types these calls are made with: a listing variant and a plain one
CallEntityTypes == {"franchise", "users"}

\* source ids of these calls
CallIds == {JsNumber(n) : n \in 0..MaxCallId}

\* the stable id pinned with setUUID
PinnedIds == {"pinned-a"}

\* the arrays of ids mapIdsToUUIDs is called with: two ids, the first the
\* smaller (0, with which the array starts at times, is no reference)
IdArrays ==
  {<<JsNumber(p[1]), JsNumber(p[2])>> : p \in {q \in (0..MaxCallId) \X (1..MaxCallId) : q[1] < q[2]}}

\* a step that is a call, with its arguments
CallStep(op, ok, fresh, kept, entity, oldId, uuid) ==
  [op |-> op, noref |-> oldId \in InvalidIds, ok |-> ok, fresh |-> fresh, kept |-> kept,
   entity |-> entity, oldId |-> oldId, uuid |-> uuid]

\* setUUID(entity, oldId, uuid) is called; no caller passes options
SetUUID ==
  \E entity \in CallEntityTypes, oldId \in CallIds, uuid \in PinnedIds \cup {""} :
    LET m1 == setUUID(M, entity, oldId, uuid, DefaultOptions)
    IN  /\ \/ idMappings["_meta"].totalMappings < MaxMappings
           \/ m1.idMappings["_meta"] = idMappings["_meta"]
        /\ idMappings' = m1.idMappings
        /\ reverseIdMappings' = m1.reverseIdMappings
        /\ last' = CallStep("set", oldId \in ValidIds /\ uuid \in PinnedIds, M = FreshMapper,
                            Kept(idMappings, m1.idMappings), entity, oldId, uuid)
        /\ UNCHANGED <<file, returned, saved>>
        /\ UNCHANGED migrationVars
        /\ UNCHANGED parserVars

\* getUUID(entity, oldId) is called
Lookup ==
  \E entity \in CallEntityTypes, oldId \in CallIds :
    LET r == getUUIDCall(M, entity, oldId)
    IN  /\ idMappings' = r.m.idMappings
        /\ reverseIdMappings' = r.m.reverseIdMappings
        /\ last' = CallStep("get", r.ret # Null, M = FreshMapper,
                            Kept(idMappings, r.m.idMappings), entity, oldId, r.ret)
        /\ UNCHANGED <<file, returned, saved>>
        /\ UNCHANGED migrationVars
        /\ UNCHANGED parserVars

\* mapIdsToUUIDs(entity, oldIds) is called with an array
MapIds ==
  \E entity \in CallEntityTypes, oldIds \in IdArrays :
    LET r == mapIdsToUUIDs(M, entity, oldIds)
    IN  /\ idMappings' = r.m.idMappings
        /\ reverseIdMappings' = r.m.reverseIdMappings
        /\ last' = Step("mapIds", FALSE, r.ret # <<>>, M = FreshMapper,
                        Kept(idMappings, r.m.idMappings))
        /\ UNCHANGED <<file, returned, saved>>
        /\ UNCHANGED migrationVars
        /\ UNCHANGED parserVars

NextCalls ==
  \/ GetOrCreate({"franchise", "listings"}, CallIds, FALSE)
  \/ SetUUID
  \/ Lookup
  \/ MapIds

SpecCalls == Init /\ [][NextCalls]_vars

(***************************************************************************)
(* The listings migration: three tasks run under Promise.all, each a      *)
(* processBatch over its table.  A transform has no await inside, so it   *)
(* runs from its start to its end without any other task's code in        *)
(* between; the tasks interleave between two items.                        *)
(***************************************************************************)
\* migrationTasks: the table a task reads and the listing type it passes
migrationTasks ==
  [businesses |-> [sourceData |-> "businesses", type |-> "business"],
   franchises |-> [sourceData |-> "franchise", type |-> "franchise"],
   investors |-> [sourceData |-> "investors", type |-> "investor"]]

\* the items of a task
SourceData(task) == tables[migrationTasks[task].sourceData]

\* transformListing(listing, type): MigrationStrategy.transform.listing takes
\* the document's id from getOrCreateUUID('listings', listing.id)
transformListing(m, listing, type) ==
  LET r == getOrCreateUUID(m, "listings", listing.id, DefaultOptions, Null)
  IN  [m |-> r.m, result |-> [docId |-> r.ret, data |-> [id |-> r.ret, type |-> type]]]

\* one task's processBatch awaits the transform of its next item
TransformNext ==
  \E task \in TaskNames :
    /\ pos[task] < Len(SourceData(task))
    /\ LET r == transformListing(M, SourceData(task)[pos[task] + 1],
                                 migrationTasks[task].type)
       IN  /\ idMappings' = r.m.idMappings
           /\ reverseIdMappings' = r.m.reverseIdMappings
           /\ pos' = [pos EXCEPT ![task] = @ + 1]
           /\ obs' = [obs EXCEPT ![task] = Append(@, r.result.docId)]
           /\ last' = Step("transform", FALSE, r.result.docId # Null, M = FreshMapper,
                           Kept(idMappings, r.m.idMappings))
    /\ UNCHANGED <<file, returned, saved, tables, todo, docs>>
    /\ UNCHANGED parserVars

\* the dump holds rows of the three listing tables; ids may occur in several
InitConc ==
  /\ InitMapper
  /\ InitMigration
  /\ InitParser
  /\ \E b, f, i \in SUBSET (1..MaxId) :
       tables = [NoRows EXCEPT !["businesses"] = RowsWithIds(b),
                               !["franchise"] = RowsWithIds(f),
                               !["investors"] = RowsWithIds(i)]

NextConc == TransformNext

SpecConc == InitConc /\ [][NextConc]_vars

(***************************************************************************)
(* The runs of the entry point: each run is a new process that migrates   *)
(* all collections in MIGRATION_ORDER or the one named by --collection.   *)
(***************************************************************************)
MIGRATION_ORDER ==
  <<"users", "plans", "listings", "reviews", "subscriptions", "transactions",
    "chatrooms", "messages">>

\* MigrationTransformer.number(value) with its default options
number(value) ==
  CASE value.t \in {"null", "undefined"} -> JsNumber(0)
    [] value.t = "number" -> value
    [] value.t = "string" ->
         IF \E n \in 0..(MaxId + 1) : NumberToString(n) = value.s
         THEN JsNumber(KeyNumber(value.s))
         ELSE JsNumber(0)

\* transformUser(user): the document's id is getOrCreateUUID('users', user.id)
transformUser(m, user) ==
  LET r == getOrCreateUUID(m, "users", user.id, DefaultOptions, Null)
  IN  [m |-> r.m, result |-> [docId |-> r.ret, data |-> [id |-> r.ret]]]

\* transformSubscription(subscription): its own id is created, the user's is
\* looked up
transformSubscription(m, subscription) ==
  LET r == getOrCreateUUID(m, "subscriptions", subscription.id, DefaultOptions, Null)
      userId == number(subscription.user_id)
      userUUID == getUUID(r.m, "users", userId)
  IN  [m |-> r.m,
       result |-> [docId |-> r.ret, data |-> [id |-> r.ret, userId |-> userUUID]]]

\* the transform a collection's migration passes to processBatch
Transform(collection, m, item) ==
  IF collection = "users" THEN transformUser(m, item)
  ELSE transformSubscription(m, item)

RECURSIVE processBatch(_, _, _, _)
\* processBatch(items, processFn, {collection}) with the items in one batch
\* and a write that succeeds: every result with a docId becomes a document
processBatch(m, db, items, collection) ==
  IF items = <<>> THEN [m |-> m, docs |-> db]
  ELSE LET r == Transform(collection, m, Head(items))
           db1 == IF r.result.docId # Null
                  THEN Put(db, <<collection, r.result.docId>>, r.result.data)
                  ELSE db
       IN  processBatch(r.m, db1, Tail(items), collection)

\* migrations[collectionName].migrate(db, migrationData, options); the dumps
\* of these runs hold rows of users and user_plans only, so the other
\* migrations get empty tables and write nothing
Migrate(m, db, collection) ==
  CASE collection = "users" -> processBatch(m, db, tables["users"], "users")
    [] collection = "subscriptions" ->
         processBatch(m, db, tables["user_plans"], "subscriptions")
    [] OTHER -> [m |-> m, docs |-> db]

\* the tool is started (--all, or --collection c) when no run is under way:
\* a new process with the mapper's tables as the module creates them
RunMigration ==
  \E arg \in {"all", "users", "subscriptions"} :
    /\ todo = <<>>
    /\ todo' = IF arg = "all" THEN MIGRATION_ORDER ELSE <<arg>>
    /\ idMappings' = InitialIdMappings
    /\ reverseIdMappings' = InitialReverse
    /\ last' = Step("start", FALSE, TRUE, TRUE, TRUE)
    /\ returned' = {}
    /\ UNCHANGED <<file, saved, tables, docs, pos, obs>>
    /\ UNCHANGED parserVars

\* the run migrates the next collection of its list
MigrateNext ==
  /\ todo # <<>>
  /\ LET r == Migrate(M, docs, Head(todo))
     IN  /\ idMappings' = r.m.idMappings
         /\ reverseIdMappings' = r.m.reverseIdMappings
         /\ docs' = r.docs
         /\ last' = Step("migrate", FALSE, TRUE, M = FreshMapper,
                         Kept(idMappings, r.m.idMappings))
  /\ todo' = Tail(todo)
  /\ UNCHANGED <<file, returned, saved, tables, pos, obs>>
  /\ UNCHANGED parserVars

\* user_plans rows 1..MaxId, each with the user_id of a user or NULL
UserPlansRows ==
  {[i \in 1..MaxId |-> [id |-> JsNumber(i), user_id |-> ref[i]]] :
     ref \in [1..MaxId -> {JsNumber(n) : n \in 1..MaxId} \cup {JsNull}]}

\* the dump holds users and user_plans rows
InitPasses ==
  /\ InitMapper
  /\ InitMigration
  /\ InitParser
  /\ \E u \in SUBSET (1..MaxId), plans \in UserPlansRows :
       tables = [NoRows EXCEPT !["users"] = RowsWithIds(u), !["user_plans"] = plans]

NextPasses == RunMigration \/ MigrateNext

SpecPasses == InitPasses /\ [][NextPasses]_vars

(***************************************************************************)
(* Part 3: the dump parsers.  A text is a sequence of one-character       *)
(* strings.                                                                *)
(***************************************************************************)
Whitespace == {" ", "\n", "\t", "\r"}

RECURSIVE trimStart(_)
trimStart(text) ==
  IF text # <<>> /\ Head(text) \in Whitespace THEN trimStart(Tail(text)) ELSE text

RECURSIVE trimEnd(_)
trimEnd(text) ==
  IF text # <<>> /\ text[Len(text)] \in Whitespace
  THEN trimEnd(SubSeq(text, 1, Len(text) - 1))
  ELSE text

\* text.trim()
trim(text) == trimEnd(trimStart(text))

\* text.includes(pattern)
includes(text, pattern) ==
  \E i \in 1..(Len(text) - Len(pattern) + 1) : SubSeq(text, i, i + Len(pattern) - 1) = pattern

\* text.startsWith(pattern)
startsWith(text, pattern) ==
  Len(text) >= Len(pattern) /\ SubSeq(text, 1, Len(pattern)) = pattern

\* text.endsWith(pattern)
endsWith(text, pattern) ==
  Len(text) >= Len(pattern) /\ SubSeq(text, Len(text) - Len(pattern) + 1, Len(text)) = pattern

\* a parsed string value, its text a sequence of characters
JsText(chars) == [t |-> "string", chars |-> chars]

JsBoolean(b) == [t |-> "boolean", b |-> b]

JsNaN == [t |-> "number", nan |-> TRUE]

LowerCase == <<"a", "b", "c", "d", "e", "f", "g", "h", "i", "j", "k", "l", "m",
               "n", "o", "p", "q", "r", "s", "t", "u", "v", "w", "x", "y", "z">>

UpperCase == <<"A", "B", "C", "D", "E", "F", "G", "H", "I", "J", "K", "L", "M",
               "N", "O", "P", "Q", "R", "S", "T", "U", "V", "W", "X", "Y", "Z">>

\* text.toUpperCase()
toUpperCase(text) ==
  [i \in 1..Len(text) |->
     IF \E k \in 1..Len(LowerCase) : LowerCase[k] = text[i]
     THEN UpperCase[CHOOSE k \in 1..Len(LowerCase) : LowerCase[k] = text[i]]
     ELSE text[i]]

RECURSIVE replaceAll(_, _, _)
\* text.replace(/pattern/g, replacement) for a literal pattern
replaceAll(text, pattern, replacement) ==
  IF text = <<>> THEN <<>>
  ELSE IF startsWith(text, pattern)
  THEN replacement \o replaceAll(SubSeq(text, Len(pattern) + 1, Len(text)), pattern, replacement)
  ELSE <<Head(text)>> \o replaceAll(Tail(text), pattern, replacement)

DigitChars == {Digits[k] : k \in 1..Len(Digits)}

DigitValue(c) == (CHOOSE k \in 1..Len(Digits) : Digits[k] = c) - 1

HexChars == DigitChars \cup {"a", "b", "c", "d", "e", "f", "A", "B", "C", "D", "E", "F"}

HexValue(c) ==
  IF c \in DigitChars THEN DigitValue(c)
  ELSE LET u == toUpperCase(<<c>>)[1]
       IN  9 + (CHOOSE k \in 1..6 : UpperCase[k] = u)

RECURSIVE RadixValue(_, _)
\* the value of a sequence of digits in a radix
RadixValue(digits, radix) ==
  IF digits = <<>> THEN 0
  ELSE RadixValue(SubSeq(digits, 1, Len(digits) - 1), radix) * radix
       + HexValue(digits[Len(digits)])

RECURSIVE Pow10(_)
Pow10(n) == IF n = 0 THEN 1 ELSE 10 * Pow10(n - 1)

RECURSIVE JsDecimal(_, _)
\* the number mantissa * 10^exponent: a whole number where it is one, and
\* written with its power of ten where that is above 10^5
JsDecimal(mantissa, exponent) ==
  IF mantissa = 0 THEN JsNumber(0)
  ELSE IF exponent > 5 THEN [t |-> "number", n |-> mantissa, exp10 |-> exponent]
  ELSE IF exponent >= 0 THEN JsNumber(mantissa * Pow10(exponent))
  ELSE IF mantissa % 10 = 0 THEN JsDecimal(mantissa \div 10, exponent + 1)
  ELSE [t |-> "number", n |-> mantissa, scale |-> 0 - exponent]

\* the first index from i on that holds no decimal digit
DigitsEnd(text, i) ==
  CHOOSE j \in i..(Len(text) + 1) :
    /\ \A k \in i..(j - 1) : text[k] \in DigitChars
    /\ j = Len(text) + 1 \/ text[j] \notin DigitChars

\* a decimal point stands at a
HasDot(text, a) == a <= Len(text) /\ text[a] = "."

\* digits before index a or between the decimal point at a and index b
HasDigits(text, a, b) == (a - 1) + (IF HasDot(text, a) THEN b - a - 1 ELSE 0) >= 1

\* an exponent mark stands at b, after the digits
ExpMark(text, a, b) == HasDigits(text, a, b) /\ b <= Len(text) /\ text[b] \in {"e", "E"}

\* where the digits of the exponent marked at b start, after its sign
ExpStart(text, b) ==
  IF b + 1 <= Len(text) /\ text[b + 1] \in {"+", "-"} THEN b + 2 ELSE b + 1

\* the literal with integer digits up to a, fraction digits up to b and
\* exponent digits from c0 up to c
ScanResult(text, a, b, c0, c) ==
  LET hasExp == ExpMark(text, a, b) /\ c > c0
      expValue == IF hasExp THEN RadixValue(SubSeq(text, c0, c - 1), 10) ELSE 0
  IN  [ok |-> HasDigits(text, a, b),
       end |-> IF hasExp THEN c ELSE b,
       mantissa |-> RadixValue(SubSeq(text, 1, a - 1)
                               \o (IF HasDot(text, a) THEN SubSeq(text, a + 1, b - 1)
                                   ELSE <<>>), 10),
       exponent |-> (IF hasExp /\ text[c0 - 1] = "-" THEN 0 - expValue ELSE expValue)
                    - (IF HasDot(text, a) THEN b - a - 1 ELSE 0)]

\* the literal from its exponent on
ScanExponent(text, a, b) ==
  ScanResult(text, a, b, ExpStart(text, b),
             IF ExpMark(text, a, b) THEN DigitsEnd(text, ExpStart(text, b)) ELSE b)

\* the literal from its fraction on
ScanFraction(text, a) ==
  ScanExponent(text, a, IF HasDot(text, a) THEN DigitsEnd(text, a + 1) ELSE a)

\* how far an unsigned decimal literal (digits, a fraction, an exponent)
\* reaches at the start of text, its parts, and whether it is one
ScanDecimal(text) == ScanFraction(text, DigitsEnd(text, 1))

Infinity == <<"I", "n", "f", "i", "n", "i", "t", "y">>

JsInfinity(negative) == [t |-> "number", infinity |-> TRUE, negative |-> negative]

\* the number of a scanned literal d with its sign
SignedDecimal(negative, d) ==
  JsDecimal(IF negative THEN 0 - d.mantissa ELSE d.mantissa, d.exponent)

\* the text has a sign
Signed(t) == t # <<>> /\ Head(t) \in {"+", "-"}

\* the text without its sign
Unsigned(t) == IF Signed(t) THEN Tail(t) ELSE t

\* the text has a minus sign
Negative(t) == t # <<>> /\ Head(t) = "-"

\* the value of the longest decimal literal d that u starts with
FloatPrefix(u, negative, d) ==
  IF startsWith(u, Infinity) THEN JsInfinity(negative)
  ELSE IF ~d.ok THEN JsNaN
  ELSE SignedDecimal(negative, d)

\* parseFloat(text): the longest decimal literal the text starts with
parseFloat(text) ==
  FloatPrefix(Unsigned(trimStart(text)), Negative(trimStart(text)),
              ScanDecimal(Unsigned(trimStart(text))))

\* the value of the decimal digits u starts with, up to index a
IntegerPrefix(u, negative, a) ==
  IF a = 1 THEN JsNaN
  ELSE JsNumber(IF negative THEN 0 - RadixValue(SubSeq(u, 1, a - 1), 10)
                ELSE RadixValue(SubSeq(u, 1, a - 1), 10))

\* parseInt(text, 10): the sign and the decimal digits the text starts with
parseInt(text) ==
  IntegerPrefix(Unsigned(trimStart(text)), Negative(trimStart(text)),
                DigitsEnd(Unsigned(trimStart(text)), 1))

\* the radix a 0x, 0o or 0b prefix announces, 0 when there is none
PrefixRadix(t) ==
  IF Len(t) > 2 /\ t[1] = "0"
  THEN CASE t[2] \in {"x", "X"} -> 16
         [] t[2] \in {"o", "O"} -> 8
         [] t[2] \in {"b", "B"} -> 2
         [] OTHER -> 0
  ELSE 0

\* the value of the digits after a radix prefix
RadixLiteral(radixDigits, radix) ==
  IF \A k \in 1..Len(radixDigits) :
       radixDigits[k] \in HexChars /\ HexValue(radixDigits[k]) < radix
  THEN JsNumber(RadixValue(radixDigits, radix))
  ELSE JsNaN

\* the value of the unsigned text u when the whole of it is the literal d
DecimalLiteral(u, negative, d) ==
  IF u = Infinity THEN JsInfinity(negative)
  ELSE IF d.ok /\ d.end = Len(u) + 1 THEN SignedDecimal(negative, d)
  ELSE JsNaN

\* the value of a trimmed text as a numeric literal
NumericLiteral(t) ==
  IF t = <<>> THEN JsNumber(0)
  ELSE IF PrefixRadix(t) # 0 THEN RadixLiteral(SubSeq(t, 3, Len(t)), PrefixRadix(t))
  ELSE DecimalLiteral(Unsigned(t), Negative(t), ScanDecimal(Unsigned(t)))

\* Number(text): the whole text as a numeric literal
Number(text) == NumericLiteral(trim(text))

\* isNaN(text)
isNaN(text) == Number(text) = JsNaN

NULL == <<"N", "U", "L", "L">>

\* value.substring(1, value.length - 1); substring swaps its arguments when
\* the first is the greater, which it is for a text of one character
Unquote(value) ==
  IF Len(value) = 1 THEN value ELSE SubSeq(value, 2, Len(value) - 1)

\* processValue(value) of the first parser
processValue(value) ==
  IF toUpperCase(value) = NULL THEN JsNull
  ELSE IF \/ startsWith(value, <<"'">>) /\ endsWith(value, <<"'">>)
          \/ startsWith(value, <<"\"">>) /\ endsWith(value, <<"\"">>)
  THEN JsText(replaceAll(replaceAll(replaceAll(Unquote(value),
                                               <<"\\", "'">>, <<"'">>),
                                    <<"\\", "\"">>, <<"\"">>),
                         <<"\\", "\\">>, <<"\\">>))
  ELSE IF ~isNaN(value) /\ value # <<>>
  THEN IF includes(value, <<".">>) THEN parseFloat(value) ELSE parseInt(value)
  ELSE JsText(value)

\* parseValue(valueStr) of the second parser
parseValue(valueStr) ==
  IF toUpperCase(valueStr) = NULL THEN JsNull
  ELSE IF startsWith(valueStr, <<"'">>) /\ endsWith(valueStr, <<"'">>)
  THEN JsText(replaceAll(Unquote(valueStr), <<"\\", "'">>, <<"'">>))
  ELSE IF ~isNaN(valueStr) THEN Number(valueStr)
  ELSE IF toUpperCase(valueStr) = <<"T", "R", "U", "E">> THEN JsBoolean(TRUE)
  ELSE IF toUpperCase(valueStr) = <<"F", "A", "L", "S", "E">> THEN JsBoolean(FALSE)
  ELSE JsText(valueStr)

RECURSIVE ValuesLoop(_, _, _)
\* the loop of parseValuesComplex from the character at i
ValuesLoop(rowText, i, st) ==
  IF i > Len(rowText) THEN st
  ELSE
    LET char == rowText[i]
    IN  IF st.escaped
        THEN ValuesLoop(rowText, i + 1,
                        [st EXCEPT !.currentValue = Append(@, char), !.escaped = FALSE])
        ELSE IF char = "\\"
        THEN ValuesLoop(rowText, i + 1, [st EXCEPT !.escaped = TRUE])
        ELSE IF char \in {"'", "\""}
        THEN ValuesLoop(rowText, i + 1,
               IF ~st.inString
               THEN [st EXCEPT !.inString = TRUE, !.stringChar = char]
               ELSE IF char = st.stringChar
               THEN [st EXCEPT !.inString = FALSE, !.stringChar = ""]
               ELSE [st EXCEPT !.currentValue = Append(@, char)])
        ELSE IF char = "," /\ ~st.inString
        THEN ValuesLoop(rowText, i + 1,
                        [st EXCEPT !.values = Append(@, processValue(trim(st.currentValue))),
                                   !.currentValue = <<>>])
        ELSE ValuesLoop(rowText, i + 1, [st EXCEPT !.currentValue = Append(@, char)])

\* the values after the loop of parseValuesComplex: the last value is added
LastValue(st) ==
  IF trim(st.currentValue) # <<>>
  THEN Append(st.values, processValue(trim(st.currentValue)))
  ELSE st.values

\* parseValuesComplex(rowText): the values of the row
parseValuesComplex(rowText) ==
  LastValue(ValuesLoop(rowText, 1,
                       [values |-> <<>>, currentValue |-> <<>>, inString |-> FALSE,
                        stringChar |-> "", escaped |-> FALSE]))

RECURSIVE RowValuesLoop(_, _, _)
\* the loop of parseRowValues from the character at i
RowValuesLoop(rowStr, i, st) ==
  IF i > Len(rowStr) THEN st
  ELSE
    LET char == rowStr[i]
    IN  IF char = "'" /\ (i = 1 \/ rowStr[i - 1] # "\\")
        THEN RowValuesLoop(rowStr, i + 1,
                           [st EXCEPT !.inString = ~@, !.current = Append(@, char)])
        ELSE IF char = "," /\ ~st.inString
        THEN RowValuesLoop(rowStr, i + 1,
                           [st EXCEPT !.values = Append(@, parseValue(trim(st.current))),
                                      !.current = <<>>])
        ELSE RowValuesLoop(rowStr, i + 1, [st EXCEPT !.current = Append(@, char)])

\* the values after the loop of parseRowValues: the last value is added
LastRowValue(st) ==
  IF trim(st.current) # <<>>
  THEN Append(st.values, parseValue(trim(st.current)))
  ELSE st.values

\* parseRowValues(rowStr) of the second parser
parseRowValues(rowStr) ==
  LastRowValue(RowValuesLoop(rowStr, 1,
                             [values |-> <<>>, current |-> <<>>, inString |-> FALSE]))

\* the variables of splitInsertValues before its loop
SplitStart ==
  [result |-> <<>>, current |-> <<>>, depth |-> 0, inString |-> FALSE,
   stringChar |-> "", escaped |-> FALSE]

RECURSIVE SplitLoop(_, _, _)
\* the loop of splitInsertValues from the character at i (counted from 1)
SplitLoop(valuesText, i, st) ==
  IF i > Len(valuesText) THEN st
  ELSE
    LET char == valuesText[i]
        isQuote == char \in {"'", "\""} /\ ~st.escaped
        inString == IF isQuote /\ ~st.inString THEN TRUE
                    ELSE IF isQuote /\ char = st.stringChar THEN FALSE
                    ELSE st.inString
        stringChar == IF isQuote /\ ~st.inString THEN char
                      ELSE IF isQuote /\ char = st.stringChar THEN ""
                      ELSE st.stringChar
    IN  IF char = "\\" /\ ~st.escaped
        THEN SplitLoop(valuesText, i + 1,
                       [st EXCEPT !.inString = inString, !.stringChar = stringChar,
                                  !.escaped = TRUE, !.current = Append(@, char)])
        ELSE
          LET depth == IF char = "(" /\ ~inString THEN st.depth + 1
                       ELSE IF char = ")" /\ ~inString THEN st.depth - 1
                       ELSE st.depth
              current == Append(st.current, char)
              separator == /\ depth = 0 /\ ~inString /\ char = ")"
                           /\ i + 1 <= Len(valuesText) /\ valuesText[i + 1] = ","
                           /\ i + 2 <= Len(valuesText) /\ valuesText[i + 2] = "("
          IN  IF separator
              THEN SplitLoop(valuesText, i + 3,
                             [result |-> Append(st.result, current), current |-> <<>>,
                              depth |-> depth, inString |-> inString,
                              stringChar |-> stringChar, escaped |-> FALSE])
              ELSE SplitLoop(valuesText, i + 1,
                             [result |-> st.result, current |-> current,
                              depth |-> depth, inString |-> inString,
                              stringChar |-> stringChar, escaped |-> FALSE])

\* the rows after the loop of splitInsertValues: what is left is the last row
LastRow(st) ==
  IF st.current # <<>> THEN Append(st.result, st.current) ELSE st.result

\* the result of splitInsertValues: the whole text when no row was found
RowsOrWholeText(valuesText, result) ==
  IF result = <<>> /\ trim(valuesText) # <<>> THEN <<trim(valuesText)>> ELSE result

\* splitInsertValues(valuesText): the row texts
splitInsertValues(valuesText) ==
  IF ~includes(valuesText, <<")", ",", "(">>) THEN <<trim(valuesText)>>
  ELSE RowsOrWholeText(valuesText, LastRow(SplitLoop(valuesText, 1, SplitStart)))

\* extractTableData on a row text: trimmed, and without its outer parentheses
\* when it has both
StripParentheses(rowText) ==
  LET t == trim(rowText)
  IN  IF startsWith(t, <<"(">>) /\ endsWith(t, <<")">>)
      THEN SubSeq(t, 2, Len(t) - 1)
      ELSE t

\* the row object: rowData[columns[i]] = values[i] for i < n, in order
RowObject(columns, values, n) ==
  [c \in {columns[i] : i \in 1..n} |->
     values[CHOOSE i \in 1..n : columns[i] = c /\ \A k \in (i + 1)..n : columns[k] # c]]

\* what the values of a row add to the data: a row object, when there are
\* values and no more of them than columns
RowOf(columns, values) ==
  IF Len(values) > 0 /\ Len(values) <= Len(columns)
  THEN <<RowObject(columns, values, Len(values))>>
  ELSE <<>>

RECURSIVE RowsToData(_, _)
\* the loop of extractTableData over the row texts of one match
RowsToData(rows, columns) ==
  IF rows = <<>> THEN <<>>
  ELSE RowOf(columns, parseValuesComplex(StripParentheses(Head(rows))))
       \o RowsToData(Tail(rows), columns)

RECURSIVE extractTableData(_, _)
\* extractTableData(sqlContent, pattern, columns), given the values texts the
\* pattern captures in the order of its matches
extractTableData(captures, columns) ==
  IF captures = <<>> THEN <<>>
  ELSE (IF Head(captures) = <<>> THEN <<>>
        ELSE RowsToData(splitInsertValues(Head(captures)), columns))
       \o extractTableData(Tail(captures), columns)

RECURSIVE InsertRowsLoop(_, _, _)
\* the loop of processInsertStatement that cuts valuesStr into rows
InsertRowsLoop(valuesStr, i, st) ==
  IF i > Len(valuesStr) THEN st
  ELSE
    LET char == valuesStr[i]
        inString == IF char = "'" /\ (i = 1 \/ valuesStr[i - 1] # "\\")
                    THEN ~st.inString ELSE st.inString
    IN  IF char = "(" /\ ~inString /\ st.parenthesisLevel = 0
        THEN InsertRowsLoop(valuesStr, i + 1,
                            [st EXCEPT !.inString = inString, !.parenthesisLevel = 1,
                                       !.current = <<>>])
        ELSE IF char = ")" /\ ~inString /\ st.parenthesisLevel = 1
        THEN InsertRowsLoop(valuesStr, i + 1,
                            [st EXCEPT !.inString = inString, !.parenthesisLevel = 0,
                                       !.rows = Append(@, st.current)])
        ELSE
          LET level == IF char = "(" /\ ~inString THEN st.parenthesisLevel + 1
                       ELSE IF char = ")" /\ ~inString THEN st.parenthesisLevel - 1
                       ELSE st.parenthesisLevel
          IN  InsertRowsLoop(valuesStr, i + 1,
                [st EXCEPT !.inString = inString, !.parenthesisLevel = level,
                           !.current = IF (char = "," /\ level = 0 /\ ~inString) \/ level <= 0
                                       THEN @ ELSE Append(@, char)])

\* the row texts processInsertStatement cuts valuesStr into
InsertRows(valuesStr) ==
  InsertRowsLoop(valuesStr, 1,
                 [rows |-> <<>>, current |-> <<>>, parenthesisLevel |-> 0,
                  inString |-> FALSE]).rows

\* an array of values, as distinct from a row object
JsArray(items) == [t |-> "array", items |-> items]

\* Math.min(a, b)
Min(a, b) == IF a <= b THEN a ELSE b

\* what the values of a row make processInsertStatement push: a row
\* object, or the array of values when there are no column names
PushedRow(columnNames, rowValues) ==
  IF Len(rowValues) > 0
  THEN IF Len(columnNames) > 0
       THEN <<RowObject(columnNames, rowValues, Min(Len(columnNames), Len(rowValues)))>>
       ELSE <<JsArray(rowValues)>>
  ELSE <<>>

RECURSIVE InsertRowsToData(_, _)
\* the loop of processInsertStatement over the rows: what is pushed
InsertRowsToData(rows, columnNames) ==
  IF rows = <<>> THEN <<>>
  ELSE PushedRow(columnNames, parseRowValues(Head(rows)))
       \o InsertRowsToData(Tail(rows), columnNames)

\* processInsertStatement, given the text its VALUES pattern captures: the
\* rows it pushes to the table
processInsertStatement(valuesStr, columnNames) ==
  InsertRowsToData(InsertRows(valuesStr), columnNames)


(***************************************************************************)
(* The rows of one INSERT statement (SpecRows): a VALUES text of 1..MaxRows *)
(* tuples is cut into rows and the rows into values, by the dump parser    *)
(* (extractTableData) and by the transformer's parser                      *)
(* (processInsertStatement).                                               *)
(***************************************************************************)
MaxRows == 3

MaxColumns == 3

mapperVars == <<idMappings, reverseIdMappings, file, last, returned, saved>>

\* the tuples the statements are made of: 1,'a,b',NULL   2,'c''d',3   3,'42'   4
SampleTuples ==
  << <<"1", ",", "'", "a", ",", "b", "'", ",", "N", "U", "L", "L">>,
     <<"2", ",", "'", "c", "'", "'", "d", "'", ",", "3">>,
     <<"3", ",", "'", "4", "2", "'">>,
     <<"4">> >>

RECURSIVE ValuesText(_)
\* the VALUES text of a statement with these tuples: (t1),(t2),...
ValuesText(tuples) ==
  IF tuples = <<>> THEN <<>>
  ELSE <<"(">> \o Head(tuples) \o <<")">>
       \o (IF Len(tuples) > 1 THEN <<",">> ELSE <<>>) \o ValuesText(Tail(tuples))

\* the statements: 1..MaxRows tuples, each one of the sample tuples
TupleLists ==
  UNION {{[i \in 1..n |-> SampleTuples[f[i]]] : f \in [1..n -> DOMAIN SampleTuples]} :
         n \in 1..MaxRows}

\* the columns of a table with c columns
Columns(c) == [i \in 1..c |-> "c" \o NumberToString(i)]

InitRows ==
  /\ InitMapper
  /\ InitMigration
  /\ tables = NoRows
  /\ pc = "statement"
  /\ output = EmptyObject
  /\ \E tuples \in TupleLists, c \in 1..MaxColumns :
       input = [tuples |-> tuples, valuesText |-> ValuesText(tuples),
                columns |-> Columns(c)]

\* the dump parser reads the statement: extractTableData with the one match
ExtractTableData ==
  /\ pc = "statement"
  /\ pc' = "extractTableData"
  /\ output' = [rows |-> splitInsertValues(input.valuesText),
                data |-> extractTableData(<<input.valuesText>>, input.columns)]
  /\ UNCHANGED input
  /\ UNCHANGED mapperVars
  /\ UNCHANGED migrationVars

\* the transformer's parser reads the statement: processInsertStatement
ProcessInsertStatement ==
  /\ pc = "statement"
  /\ pc' = "processInsertStatement"
  /\ output' = [rows |-> InsertRows(input.valuesText),
                data |-> processInsertStatement(input.valuesText, input.columns)]
  /\ UNCHANGED input
  /\ UNCHANGED mapperVars
  /\ UNCHANGED migrationVars

NextRows == ExtractTableData \/ ProcessInsertStatement

SpecRows == InitRows /\ [][NextRows]_vars


(***************************************************************************)
(* One value token (SpecLexer): processValue of the dump parser and        *)
(* parseValue of the transformer's parser applied to a trimmed token.      *)
(***************************************************************************)
MaxTokenLen == 3

\* tokens of a dump: NULL null '42' "42" 1e5 0x10 abc TRUE 42 -4.2 '' 'a\'b'
SampleTokens ==
  { NULL, <<"n", "u", "l", "l">>, <<"'", "4", "2", "'">>, <<"\"", "4", "2", "\"">>,
    <<"1", "e", "5">>, <<"0", "x", "1", "0">>, <<"a", "b", "c">>,
    <<"T", "R", "U", "E">>, <<"4", "2">>, <<"-", "4", ".", "2">>, <<"'", "'">>,
    <<"'", "a", "\\", "'", "b", "'">> }

\* every text of 1..MaxTokenLen of the characters numbers are written with
NumberLikeTokens ==
  UNION {[1..n -> {"1", "-", ".", "e"}] : n \in 1..MaxTokenLen}

Tokens == SampleTokens \cup NumberLikeTokens

InitLexer ==
  /\ InitMapper
  /\ InitMigration
  /\ tables = NoRows
  /\ pc = "token"
  /\ output = EmptyObject
  /\ \E token \in Tokens : input = [token |-> token]

\* the dump parser's lexer reads the token
ProcessValue ==
  /\ pc = "token"
  /\ pc' = "processValue"
  /\ output' = [value |-> processValue(input.token)]
  /\ UNCHANGED input
  /\ UNCHANGED mapperVars
  /\ UNCHANGED migrationVars

\* the transformer's lexer reads the token
ParseValue ==
  /\ pc = "token"
  /\ pc' = "parseValue"
  /\ output' = [value |-> parseValue(input.token)]
  /\ UNCHANGED input
  /\ UNCHANGED mapperVars
  /\ UNCHANGED migrationVars

NextLexer == ProcessValue \/ ParseValue

SpecLexer == InitLexer /\ [][NextLexer]_vars


(***************************************************************************)
(* A whole dump (SpecDump): parseSqlDump of the dump parser, table by      *)
(* table, and parseSQLFile of the transformer's parser.  The dump holds,   *)
(* for each requested table in turn, its CREATE TABLE block (or none) and  *)
(* its INSERT statements, one statement per line.                          *)
(***************************************************************************)
MaxStatements == 2

\* CONFIG.tables: the tables requested, in their order (the first three)
DumpTables == <<"users", "plans", "plan_features">>

\* the columns every CREATE TABLE block of the dump declares
DeclaredColumns == Columns(2)

\* how a statement is written between the table name and VALUES: nothing,
\* a column list, or text that is not a column list (a comment, a clause)
StatementForms == {"plain", "columns", "other"}

\* the tuples of a statement of the dump: (4)   (1,'a,b',NULL)   (3,'42'),(4)
DumpTupleLists ==
  { <<SampleTuples[4]>>, <<SampleTuples[1]>>, <<SampleTuples[3], SampleTuples[4]>> }

Statements == [form : StatementForms, tuples : DumpTupleLists]

\* the INSERT statements of a table, in the order of the dump text
StatementsOf(dump, tableName) ==
  IF tableName = DumpTables[1] THEN dump.statements
  ELSE <<[form |-> "plain", tuples |-> <<SampleTuples[4]>>]>>

RECURSIVE DumpLines(_, _)
\* the lines of the dump from the i-th table on
DumpLines(dump, i) ==
  IF i > Len(DumpTables) THEN <<>>
  ELSE LET t == DumpTables[i]
           stmts == StatementsOf(dump, t)
       IN  (IF t \in dump.missing THEN <<>> ELSE <<[kind |-> "create", table |-> t]>>)
           \o [k \in 1..Len(stmts) |->
                 [kind |-> "insert", table |-> t, form |-> stmts[k].form,
                  tuples |-> stmts[k].tuples]]
           \o DumpLines(dump, i + 1)

\* extractTableSchema(sqlContent, tableName): null without a CREATE TABLE block
extractTableSchema(dump, tableName) ==
  IF tableName \in dump.missing THEN JsNull
  ELSE [columns |-> DeclaredColumns]

\* Object.keys(tables): the keys in the order they were added
TableKeys(tablesObject) == SelectSeq(DumpTables, LAMBDA t : t \in DOMAIN tablesObject)

\* the four insertPatterns, by what they are for
insertPatterns == <<"values", "column names", "single-row", "newlines">>

\* whether the pattern matches a statement written in this form
PatternMatches(pattern, form) ==
  CASE pattern = "values" -> form \in {"plain", "columns"}
    [] pattern = "column names" -> form = "columns"
    [] pattern = "single-row" -> form = "plain"
    [] pattern = "newlines" -> TRUE

\* the text between the first ( after VALUES and the ) before the semicolon
InnerText(statement) ==
  LET text == ValuesText(statement.tuples) IN SubSeq(text, 2, Len(text) - 1)

\* what group 1 of the pattern captures in a statement it matches
Capture(pattern, statement) ==
  IF pattern \in {"values", "column names"} THEN ValuesText(statement.tuples)
  ELSE InnerText(statement)

\* (mutant) the captures of the pattern's matches, the last match first
CapturesLastFirst(pattern, statements) ==
  LET matching == SelectSeq(statements, LAMBDA st : PatternMatches(pattern, st.form))
  IN  [k \in 1..Len(matching) |-> Capture(pattern, matching[Len(matching) + 1 - k])]

\* the captures of the pattern's matches, in the order of the dump text
Captures(pattern, statements) ==
  LET matching == SelectSeq(statements, LAMBDA st : PatternMatches(pattern, st.form))
  IN  [k \in 1..Len(matching) |-> Capture(pattern, matching[k])]

RECURSIVE StrategyLoop(_, _, _, _)
RECURSIVE StrategyRound(_, _, _, _, _)
\* one round of the loop over insertPatterns, data being the rows of the
\* k-th pattern: the loop breaks when there are rows
StrategyRound(statements, columns, k, tried, data) ==
  IF Len(data) > 0
  THEN [data |-> data, dataFound |-> TRUE,
        tried |-> Append(tried, [pattern |-> insertPatterns[k], rows |-> Len(data)])]
  ELSE StrategyLoop(statements, columns, k + 1,
                    Append(tried, [pattern |-> insertPatterns[k], rows |-> Len(data)]))

\* the loop over insertPatterns from the k-th on: tried is the patterns
\* applied so far with the number of rows each gave
StrategyLoop(statements, columns, k, tried) ==
  IF k > Len(insertPatterns) THEN [data |-> <<>>, dataFound |-> FALSE, tried |-> tried]
  ELSE StrategyRound(statements, columns, k, tried,
                     extractTableData(Captures(insertPatterns[k], statements), columns))

RECURSIVE RecoveryPass(_, _)
\* the rows of processing each INSERT statement individually
RecoveryPass(statements, columns) ==
  IF statements = <<>> THEN <<>>
  ELSE (IF InnerText(Head(statements)) # <<>>
        THEN RowOf(columns, parseValuesComplex(InnerText(Head(statements))))
        ELSE <<>>)
       \o RecoveryPass(Tail(statements), columns)

\* the table after the strategies (direct) and the recovery pass, which ran
\* or not and gave the rows data
TableRecord(columns, direct, recovery, data) ==
  [columns |-> columns,
   data |-> IF recovery /\ Len(data) > 0 THEN data ELSE direct.data,
   tried |-> direct.tried,
   recovery |-> recovery,
   dataFound |-> direct.dataFound \/ (recovery /\ Len(data) > 0)]

\* the table after the strategies: the recovery pass runs when they found
\* no data and there are statements
AfterStrategies(statements, columns, direct) ==
  TableRecord(columns, direct, ~direct.dataFound /\ Len(statements) > 0,
              IF ~direct.dataFound /\ Len(statements) > 0
              THEN RecoveryPass(statements, columns) ELSE <<>>)

\* (mutant) the recovery pass runs for every table that has statements
TableDataRecoversAnyway(statements, columns) ==
  TableRecord(columns, StrategyLoop(statements, columns, 1, <<>>), Len(statements) > 0,
              IF Len(statements) > 0 THEN RecoveryPass(statements, columns) ELSE <<>>)

\* the data of one table: the strategies, then the recovery pass
TableData(statements, columns) ==
  AfterStrategies(statements, columns, StrategyLoop(statements, columns, 1, <<>>))

RECURSIVE FileLoop(_, _, _)
\* parseSQLFile from the i-th line on
FileLoop(lines, i, st) ==
  IF i > Len(lines) THEN st
  ELSE
    LET line == lines[i]
    IN  IF line.kind = "create"
        THEN FileLoop(lines, i + 1,
               [st EXCEPT !.currentTable = line.table,
                          !.tablesData = [t \in DOMAIN @ \cup {line.table} |->
                                            IF t = line.table THEN <<>> ELSE @[t]]])
        ELSE IF st.currentTable = "null" THEN FileLoop(lines, i + 1, st)
        ELSE
          LET columnNames == IF line.form = "columns" THEN DeclaredColumns
                             ELSE st.columnNames
              rows == processInsertStatement(ValuesText(line.tuples), columnNames)
          IN  FileLoop(lines, i + 1,
                [st EXCEPT !.columnNames = columnNames,
                           !.tablesData[st.currentTable] = @ \o rows])

\* parseSQLFile(filePath): tablesData
parseSQLFile(dump) ==
  FileLoop(DumpLines(dump, 1), 1,
           [tablesData |-> EmptyObject, currentTable |-> "null", columnNames |-> <<>>]).tablesData

\* CONFIG.verbose and CONFIG.logInsertStatements as the file sets them
CONFIG == [verbose |-> TRUE, logInsertStatements |-> TRUE]

\* a run of the parser: the dump, the diagnostics switches, and whether the
\* dump file can be read
Run(missing, statements, config, readable) ==
  [missing |-> missing, statements |-> statements, config |-> config,
   readable |-> readable]

Dumps ==
  {Run(m, s, CONFIG, TRUE) :
     m \in SUBSET {DumpTables[i] : i \in 1..Len(DumpTables)},
     s \in UNION {[1..n -> Statements] : n \in 0..MaxStatements}}

InitDump ==
  /\ InitMapper
  /\ InitMigration
  /\ tables = NoRows
  /\ pc = "dump"
  /\ output = EmptyObject
  /\ input \in Dumps

\* parseSqlDump before it reads the dump: nothing parsed, nothing written
ParseStart ==
  [i |-> 1, tables |-> EmptyObject, diagnostics |-> <<>>, files |-> EmptyObject,
   artifact |-> [written |-> FALSE, content |-> <<>>], outcome |-> "running"]

\* parseSqlDump reads the dump file; readFile throws when it cannot be read
ReadDump ==
  /\ pc = "dump"
  /\ pc' = IF input.readable THEN "schemas" ELSE "catch"
  /\ output' = ParseStart
  /\ UNCHANGED input
  /\ UNCHANGED mapperVars
  /\ UNCHANGED migrationVars

\* one round of the loop over CONFIG.tables: the schema of a table
ExtractSchema ==
  /\ pc = "schemas"
  /\ LET tableName == DumpTables[output.i]
         tableSchema == extractTableSchema(input, tableName)
         found == tableSchema # JsNull /\ Len(tableSchema.columns) > 0
         tablesNow == IF found
                      THEN [t \in DOMAIN output.tables \cup {tableName} |->
                              IF t = tableName
                              THEN [columns |-> tableSchema.columns, data |-> <<>>,
                                    tried |-> <<>>, recovery |-> FALSE,
                                    dataFound |-> FALSE]
                              ELSE output.tables[t]]
                      ELSE output.tables
         last_ == output.i = Len(DumpTables)
     IN  /\ output' = [output EXCEPT
                         !.tables = tablesNow,
                         !.diagnostics = Append(@, [table |-> tableName, error |-> ~found]),
                         !.i = IF last_ THEN 1 ELSE @ + 1]
         /\ pc' = IF ~last_ THEN "schemas"
                  ELSE IF TableKeys(tablesNow) = <<>> THEN "save" ELSE "data"
  /\ UNCHANGED input
  /\ UNCHANGED mapperVars
  /\ UNCHANGED migrationVars

\* what the data loop adds to the diagnostics for a table when
\* CONFIG.logInsertStatements is set: the statements found
StatementsLog(config, tableName, statements) ==
  IF config.logInsertStatements
  THEN <<[table |-> tableName, found |-> Len(statements)]>>
  ELSE <<>>

\* one round of the data loop for a table: what it adds to the diagnostics
\* and the record of the table after it
DataLoopRoundLoggedOnly(config, tableName, statements, columns) ==
  [diagnostics |-> StatementsLog(config, tableName, statements),
   table |-> TableData(IF config.logInsertStatements THEN statements ELSE <<>>,
                       columns)]

DataLoopRound(config, tableName, statements, columns) ==
  [diagnostics |-> StatementsLog(config, tableName, statements),
   table |-> TableData(statements, columns)]

\* one round of the loop over Object.keys(tables): the data of a table
ExtractData ==
  /\ pc = "data"
  /\ LET keys == TableKeys(output.tables)
         tableName == keys[output.i]
         round == DataLoopRound(input.config, tableName,
                                StatementsOf(input, tableName),
                                output.tables[tableName].columns)
     IN  /\ output' = [output EXCEPT
                         !.tables[tableName] = round.table,
                         !.diagnostics = @ \o round.diagnostics,
                         !.i = @ + 1]
         /\ pc' = IF output.i = Len(keys) THEN "save" ELSE "data"
  /\ UNCHANGED input
  /\ UNCHANGED mapperVars
  /\ UNCHANGED migrationVars

\* the diagnostics and one JSON file per key of tables are written
SaveFiles ==
  /\ pc = "save"
  /\ pc' = "done"
  /\ output' = [output EXCEPT
                  !.artifact = [written |-> TRUE, content |-> output.diagnostics],
                  !.files = [t \in DOMAIN output.tables |-> output.tables[t].data],
                  !.outcome = "resolved"]
  /\ UNCHANGED input
  /\ UNCHANGED mapperVars
  /\ UNCHANGED migrationVars

CatchErrorWithoutWrite ==
  /\ pc = "catch"
  /\ pc' = "done"
  /\ output' = [output EXCEPT
                  !.diagnostics = Append(@, [table |-> "", error |-> TRUE]),
                  !.outcome = "resolved"]
  /\ UNCHANGED input
  /\ UNCHANGED mapperVars
  /\ UNCHANGED migrationVars

\* the catch block of parseSqlDump: the error is added to the diagnostics,
\* the diagnostics are written, and parseSqlDump returns
CatchError ==
  /\ pc = "catch"
  /\ pc' = "done"
  /\ output' = [output EXCEPT
                  !.diagnostics = Append(@, [table |-> "", error |-> TRUE]),
                  !.artifact = [written |-> TRUE,
                                content |-> Append(output.diagnostics,
                                                   [table |-> "", error |-> TRUE])],
                  !.outcome = "resolved"]
  /\ UNCHANGED input
  /\ UNCHANGED mapperVars
  /\ UNCHANGED migrationVars

\* the transformer's parser reads the dump
ParseSQLFile ==
  /\ pc = "dump"
  /\ pc' = "parseSQLFile"
  /\ output' = [tablesData |-> parseSQLFile(input)]
  /\ UNCHANGED input
  /\ UNCHANGED mapperVars
  /\ UNCHANGED migrationVars

NextDump == ReadDump \/ ExtractSchema \/ ExtractData \/ SaveFiles \/ ParseSQLFile

SpecDump == InitDump /\ [][NextDump]_vars

(***************************************************************************)
(* Runs of parseSqlDump with the diagnostics switches set either way and   *)
(* a dump file that can or cannot be read (SpecRun).                       *)
(***************************************************************************)
Switches == [verbose : BOOLEAN, logInsertStatements : BOOLEAN]

\* the dumps of the runs: the second table with or without its CREATE TABLE
Runs ==
  {Run(m, s, c, r) :
     m \in {{}, {DumpTables[2]}},
     s \in UNION {[1..n -> Statements] : n \in 0..MaxStatements},
     c \in Switches, r \in BOOLEAN}

InitRun ==
  /\ InitMapper
  /\ InitMigration
  /\ tables = NoRows
  /\ pc = "dump"
  /\ output = EmptyObject
  /\ input \in Runs

NextRun == ReadDump \/ ExtractSchema \/ ExtractData \/ SaveFiles \/ CatchError

SpecRun == InitRun /\ [][NextRun]_vars


(***************************************************************************)
(* Claims about the mapper's calls (Spec).                                 *)
(***************************************************************************)
\* the pairs (entity, id) that have an entry in the forward tables
MappedPairs ==
  {p \in EntityKeys(idMappings) \X IdKeys : p[2] \in DOMAIN idMappings[p[1]]}

\* C1: within one process run every getOrCreateUUID call for one (entity
\* type, source id) returns the stable id the first such call returned,
\* whatever getOrCreateUUID calls come in between
C1_SameIdWithinRun ==
  \A a, b \in returned : (a[1] = b[1] /\ a[2] = b[2]) => a[3] = b[3]

\* C2: the stable id getOrCreateUUID returns in this run, after whatever
\* earlier calls, is the one a second run that starts with empty tables and
\* makes this call first returns
C2_SameIdInEveryRun ==
  \A t \in returned :
    t[3] = getOrCreateUUID(FreshMapper, t[1], JsString(t[2]), DefaultOptions, Null).ret

\* C4: once getOrCreateUUID(a, s) has returned X for a listing variant a,
\* getUUID('listings', s) returns X in every later state
C4_AliasMirrorStays ==
  \A t \in returned :
    t[1] \in listingEntities => getUUID(M, "listings", JsString(t[2])) = t[3]

C8_NoReferenceNoEntry ==
  [][(last'.op \in {"getOrCreate", "get"} /\ last'.noref)
       => /\ ~last'.ok
          /\ idMappings' = idMappings
          /\ reverseIdMappings' = reverseIdMappings]_vars

\* getOrCreateUUID was called with no reference when mappings existed
C8_Witness ==
  /\ last.op = "getOrCreate" /\ last.noref /\ ~last.ok
  /\ idMappings["_meta"].totalMappings > 0

(***************************************************************************)
(* Claims about saving and loading the mappings file (SpecPersist).       *)
(***************************************************************************)
\* the tables `saved` as a mapper to look ids up in
SavedMapper == Mapper(saved, EmptyObject)

\* C6: after a save and a load into the tables of a process that has just
\* started, every entity table has the keys it had when it was saved, and
\* getUUID and getOrCreateUUID return for every saved mapping the stable id
\* it had (and getUUID null where there was none)
C6_RoundTrip ==
  (last.op = "load" /\ last.ok /\ last.fresh)
    => /\ EntityKeys(idMappings) = EntityKeys(saved)
       /\ \A e \in EntityKeys(saved) :
            /\ DOMAIN idMappings[e] = DOMAIN saved[e]
            /\ \A id \in DOMAIN saved[e] :
                 getOrCreateUUID(M, e, JsString(id), DefaultOptions, Null).ret = saved[e][id]
       /\ \A e \in KnownEntities, oldId \in ValidIds :
            getUUID(M, e, oldId) = getUUID(SavedMapper, e, oldId)
       /\ idMappings["_meta"].totalMappings = CountMappings(saved, EntityKeys(saved))

\* a file holding a listing variant, its mirror and a directly created
\* listing was loaded by a process that had just started
C6_Witness ==
  /\ last.op = "load" /\ last.ok /\ last.fresh
  /\ \E s \in IdKeys : s \in DOMAIN saved["businesses"]
  /\ \E s \in IdKeys : /\ s \in DOMAIN saved["listings"]
                       /\ s \notin DOMAIN saved["businesses"]

\* C7: no mapper operation removes an entry of the forward tables; load in
\* particular keeps every entry that was in memory
C7_AppendOnly ==
  [][last'.op \in {"getOrCreate", "get", "save", "load"}
       => \A e \in EntityKeys(idMappings) :
            /\ e \in EntityKeys(idMappings')
            /\ DOMAIN idMappings[e] \subseteq DOMAIN idMappings'[e]]_vars

\* C10: after a load that kept every entry that was in memory, the reverse
\* tables are exactly the inverse of the forward tables, whatever stale
\* entries the reverse tables held before
C10_ReverseIsInverse ==
  (last.op = "load" /\ last.ok /\ last.kept)
    => \A e \in EntityKeys(idMappings) \cup DOMAIN reverseIdMappings :
         LET fwd == IF e \in DOMAIN idMappings THEN idMappings[e] ELSE EmptyObject
             rev == IF e \in DOMAIN reverseIdMappings THEN reverseIdMappings[e]
                    ELSE EmptyObject
         IN  /\ \A u \in DOMAIN rev : rev[u] \in DOMAIN fwd /\ fwd[rev[u]] = u
             /\ \A s \in DOMAIN fwd : fwd[s] \in DOMAIN rev /\ rev[fwd[s]] = s

(***************************************************************************)
(* Claims about concurrently running transforms (SpecConc).               *)
(***************************************************************************)
\* the key of the item a task transformed as its i-th
ItemKey(task, i) == String(SourceData(task)[i].id)

\* C3: however the transforms of the three listing tasks interleave, all
\* callers of getOrCreateUUID('listings', s) got one and the same stable id,
\* which is the entry of the key, and every key was created once: the
\* mappings counted are the entries of the table
C3_OneIdForAllCallers ==
  /\ \A t1, t2 \in TaskNames : \A i \in 1..Len(obs[t1]), j \in 1..Len(obs[t2]) :
       ItemKey(t1, i) = ItemKey(t2, j) => obs[t1][i] = obs[t2][j]
  /\ \A t \in TaskNames : \A i \in 1..Len(obs[t]) :
       /\ ItemKey(t, i) \in DOMAIN idMappings["listings"]
       /\ idMappings["listings"][ItemKey(t, i)] = obs[t][i]
       /\ obs[t][i] # Null
  /\ idMappings["_meta"].totalMappings = Cardinality(DOMAIN idMappings["listings"])
  /\ DOMAIN idMappings["listings"] =
       UNION {{ItemKey(t, i) : i \in 1..Len(obs[t])} : t \in TaskNames}

\* the three tasks have each transformed an item with one and the same id,
\* while one of them is in the middle of its items
C3_Witness ==
  /\ \E n \in 1..MaxId : \A t \in TaskNames :
       \E i \in 1..Len(obs[t]) : SourceData(t)[i].id = JsNumber(n)
  /\ \E t \in TaskNames : pos[t] > 0 /\ pos[t] < Len(SourceData(t))

(***************************************************************************)
(* Claims about the runs of the entry point (SpecPasses).                 *)
(***************************************************************************)
\* the id the users migration gives the user with source id v
UserDocId(v) == transformUser(FreshMapper, [id |-> v]).result.docId

\* the id the subscriptions migration gives the subscription
SubscriptionDocId(row) == getOrCreateUUID(FreshMapper, "subscriptions", row.id,
                                          DefaultOptions, Null).ret

\* C9: when the document of a subscription is in Firestore and so is the
\* document of the user its row refers to, the subscription's userId is the
\* id of the user's document, whatever runs wrote the two
C9_ReferencesResolve ==
  \A i \in 1..Len(tables["user_plans"]) :
    LET row == tables["user_plans"][i]
        sub == <<"subscriptions", SubscriptionDocId(row)>>
    IN  (/\ ~NoReference(row.user_id)
         /\ sub \in DOMAIN docs
         /\ <<"users", UserDocId(row.user_id)>> \in DOMAIN docs)
          => docs[sub].userId = UserDocId(row.user_id)

(***************************************************************************)
(* Claims about setUUID, getUUID and mapIdsToUUIDs (SpecCalls).           *)
(***************************************************************************)
\* C11: right after setUUID(entity, oldId, uuid) with a valid source id and a
\* non-empty stable id, on a fresh key or over an existing mapping,
\* getUUID(entity, oldId) returns uuid, getOriginalId(entity, uuid) returns
\* the source id (in the string form the mapper keeps), and for a listing
\* variant getUUID('listings', oldId) returns uuid and the consolidated
\* reverse table maps uuid back too
C11_SetPinsTheId ==
  (last.op = "set" /\ last.ok)
    => /\ getUUID(M, last.entity, last.oldId) = last.uuid
       /\ getOriginalId(M, last.entity, last.uuid) = String(last.oldId)
       /\ last.entity \in listingEntities
            => /\ getUUID(M, "listings", last.oldId) = last.uuid
               /\ getOriginalId(M, "listings", last.uuid) = String(last.oldId)

\* setUUID has replaced the mapping of a listing variant that had one: the
\* reverse table still holds the id that was replaced
C11_Witness ==
  /\ last.op = "set" /\ last.ok /\ ~last.kept
  /\ last.entity \in listingEntities
  /\ \E u \in DOMAIN reverseIdMappings[last.entity] :
       u # last.uuid /\ reverseIdMappings[last.entity][u] = String(last.oldId)

\* C12: a getUUID or mapIdsToUUIDs call leaves the forward tables (with
\* _meta) and the reverse tables as they were
C12_GetIsReadOnly ==
  [][last'.op \in {"get", "mapIds"}
       => /\ idMappings' = idMappings
          /\ reverseIdMappings' = reverseIdMappings]_vars

\* getUUID found no direct entry and answered from the consolidated table
C12_Witness ==
  /\ last.op = "get" /\ last.ok
  /\ String(last.oldId) \notin DOMAIN idMappings[last.entity]
  /\ idMappings["listings"][String(last.oldId)] = last.uuid


(***************************************************************************)
(* Claims about the rows of a statement (SpecRows).                        *)
(***************************************************************************)
\* the text (1,'a,b',NULL),(2,'c''d',3)
TwoRowStatement == <<SampleTuples[1], SampleTuples[2]>>

\* C13: splitting the VALUES text (1,'a,b',NULL),(2,'c''d',3) gives exactly
\* the two row texts 1,'a,b',NULL and 2,'c''d',3 (outer parentheses taken off
\* as extractTableData takes them off): the comma inside 'a,b' and the
\* doubled quote inside 'c''d' do not cut or end a row
C13_TwoRowsSplit ==
  (pc = "extractTableData" /\ input.tuples = TwoRowStatement)
    => /\ Len(output.rows) = 2
       /\ StripParentheses(output.rows[1]) = SampleTuples[1]
       /\ StripParentheses(output.rows[2]) = SampleTuples[2]

\* the text cut by the dump parser: the second row keeps the closing
\* parenthesis of the text
C13_SecondRowKeepsParenthesis ==
  /\ pc = "extractTableData"
  /\ input.tuples = TwoRowStatement
  /\ Len(output.rows) = 2
  /\ StripParentheses(output.rows[1]) = SampleTuples[1]
  /\ StripParentheses(output.rows[2]) = SampleTuples[2] \o <<")">>


\* C14: the VALUES text of a statement with n >= 1 tuples is cut into exactly
\* n row texts, the i-th being the i-th tuple, by the dump parser
\* (splitInsertValues, outer parentheses taken off as extractTableData takes
\* them off) and by the transformer's parser (processInsertStatement)
C14_OneRowPerTuple ==
  pc \in {"extractTableData", "processInsertStatement"}
    => /\ Len(output.rows) = Len(input.tuples)
       /\ \A i \in 1..Len(input.tuples) :
            (IF pc = "extractTableData" THEN StripParentheses(output.rows[i])
             ELSE output.rows[i]) = input.tuples[i]

\* three tuples read by the dump parser: two row texts, the second one holding
\* the second and the third tuple
C14_RowsMerged ==
  /\ pc = "extractTableData"
  /\ Len(input.tuples) = 3
  /\ Len(output.rows) = 2
  /\ output.rows[2] = input.tuples[2] \o <<")", ",", "(">> \o input.tuples[3] \o <<")">>

\* C14 for the transformer's parser alone: processInsertStatement cuts the
\* text into one row per tuple
C14_InsertRowsPerTuple ==
  pc = "processInsertStatement" => output.rows = input.tuples


\* the statement (3,'42') read by the dump parser into a table of two or more
\* columns
QuotedNumeralRead ==
  /\ pc = "extractTableData"
  /\ input.tuples = <<SampleTuples[3]>>
  /\ Len(input.columns) >= 2

\* C15: the field written '42' is, in the parsed row, the string "42" and
\* not the number 42
C15_QuotedNumeralStaysString ==
  QuotedNumeralRead
    => /\ Len(output.data) = 1
       /\ output.data[1]["c2"] = JsText(<<"4", "2">>)

\* the field written '42' is the number 42 in the parsed row
C15_QuotedNumeralIsNumber ==
  /\ QuotedNumeralRead
  /\ Len(output.data) = 1
  /\ output.data[1]["c2"] = JsNumber(42)


\* the values the parser that ran reads in the i-th tuple of the statement
FieldValues(i) ==
  IF pc = "extractTableData" THEN parseValuesComplex(input.tuples[i])
  ELSE parseRowValues(input.tuples[i])

\* row is the i-th tuple's values bound to the first min(k, c) columns
BoundToColumns(row, i) ==
  LET n == Min(Len(FieldValues(i)), Len(input.columns))
  IN  /\ DOMAIN row = {input.columns[j] : j \in 1..n}
      /\ \A j \in 1..n : row[input.columns[j]] = FieldValues(i)[j]

\* C17: a statement of one tuple with k values, read into a table of c
\* columns, gives one row with exactly the first min(k, c) columns as keys,
\* bound to the first min(k, c) values in order: more values than columns
\* are truncated, not dropped, and missing columns get no null
C17_MinKeys ==
  (pc \in {"extractTableData", "processInsertStatement"} /\ Len(input.tuples) = 1)
    => /\ Len(output.data) = 1
       /\ BoundToColumns(output.data[1], 1)

\* the tuple 1,'a,b',NULL read by the dump parser into a table of two
\* columns: no row
C17_RowDropped ==
  /\ pc = "extractTableData"
  /\ input.tuples = <<SampleTuples[1]>>
  /\ Len(input.columns) = 2
  /\ output.data = <<>>

\* C17 for the transformer's parser alone: every tuple of the statement gives
\* a row of the first min(k, c) columns
C17_InsertTruncates ==
  pc = "processInsertStatement"
    => /\ Len(output.data) = Len(input.tuples)
       /\ \A i \in 1..Len(input.tuples) : BoundToColumns(output.data[i], i)

(***************************************************************************)
(* Claims about one value token (SpecLexer).                               *)
(***************************************************************************)
\* a token bounded by matching quotes
Quoted(token) ==
  /\ Len(token) >= 2
  /\ token[1] \in {"'", "\""}
  /\ token[Len(token)] = token[1]

\* the numerals: an optional minus sign, digits and at most one decimal
\* point, with a digit among them
Numeral(value) ==
  LET u == IF value # <<>> /\ Head(value) = "-" THEN Tail(value) ELSE value
  IN  /\ \E k \in 1..Len(u) : u[k] \in DigitChars
      /\ \A k \in 1..Len(u) : u[k] \in DigitChars \cup {"."}
      /\ Cardinality({k \in 1..Len(u) : u[k] = "."}) <= 1

\* the number a numeral denotes
NumeralValue(value) ==
  LET negative == Head(value) = "-"
      d == ScanDecimal(IF negative THEN Tail(value) ELSE value)
  IN  JsDecimal(IF negative THEN 0 - d.mantissa ELSE d.mantissa, d.exponent)

RECURSIVE Unescape(_)
\* a text with \' \" and \\ replaced by the character after the backslash
Unescape(text) ==
  IF text = <<>> THEN <<>>
  ELSE IF Len(text) >= 2 /\ text[1] = "\\" /\ text[2] \in {"'", "\"", "\\"}
  THEN <<text[2]>> \o Unescape(SubSeq(text, 3, Len(text)))
  ELSE <<Head(text)>> \o Unescape(Tail(text))

\* the value the rules give a token, applied in their order
Classified(token) ==
  IF toUpperCase(token) = NULL THEN JsNull
  ELSE IF Quoted(token) THEN JsText(Unescape(SubSeq(token, 2, Len(token) - 1)))
  ELSE IF Numeral(token) THEN NumeralValue(token)
  ELSE JsText(token)

\* C16: the lexers (processValue, parseValue) give every token the value of
\* the rules in their order: NULL in any letter case is null; a token in
\* matching quotes is the unquoted, unescaped string; an optional minus sign,
\* digits and at most one decimal point is that number; every other token
\* (1e5, 0x10, an identifier) is the raw string unchanged
C16_TokenClassified ==
  pc \in {"processValue", "parseValue"} => output.value = Classified(input.token)

\* the token 1e5 read by the dump parser's lexer is the number 1
C16_ExponentReadAsInteger ==
  /\ pc = "processValue"
  /\ input.token = <<"1", "e", "5">>
  /\ output.value = JsNumber(1)


(***************************************************************************)
(* Claims about a whole dump (SpecDump).                                   *)
(***************************************************************************)
\* the diagnostics hold an entry for the table that reports the error
ErrorRecorded(tableName) ==
  \E k \in 1..Len(output.diagnostics) :
    output.diagnostics[k] = [table |-> tableName, error |-> TRUE]

\* the table was parsed: it has a dataset, the one its statements give
Parsed(tableName) ==
  /\ tableName \in DOMAIN output.files
  /\ output.files[tableName]
       = TableData(StatementsOf(input, tableName), DeclaredColumns).data

\* C18: when parseSqlDump is done, every requested table without a CREATE
\* TABLE block has an empty dataset in the result and an entry in the
\* diagnostics, and every other requested table, before and after it in the
\* request order, is parsed
C18_MissingTableEmptyDataset ==
  pc = "done"
    => \A i \in 1..Len(DumpTables) :
         IF DumpTables[i] \in input.missing
         THEN /\ DumpTables[i] \in DOMAIN output.files
              /\ output.files[DumpTables[i]] = <<>>
              /\ ErrorRecorded(DumpTables[i])
         ELSE Parsed(DumpTables[i])

\* the second of three tables has no CREATE TABLE block: the result has no
\* dataset for it, the error is in the diagnostics, and the first and the
\* third table are parsed, each with a row
C18_NoDatasetForMissing ==
  /\ pc = "done"
  /\ input.missing = {DumpTables[2]}
  /\ DumpTables[2] \notin DOMAIN output.files
  /\ ErrorRecorded(DumpTables[2])
  /\ Parsed(DumpTables[1]) /\ Len(output.files[DumpTables[1]]) > 0
  /\ Parsed(DumpTables[3]) /\ Len(output.files[DumpTables[3]]) > 0

\* C18 without the dataset: the error of every table without a CREATE TABLE
\* block is in the diagnostics and every other table is parsed
C18_OthersParsed ==
  pc = "done"
    => \A i \in 1..Len(DumpTables) :
         IF DumpTables[i] \in input.missing THEN ErrorRecorded(DumpTables[i])
         ELSE Parsed(DumpTables[i])


\* the record of a table whose data loop round is over
Extracted(tableName) ==
  /\ pc \in {"data", "save", "done"}
  /\ tableName \in DOMAIN output.tables
  /\ \E k \in 1..Len(TableKeys(output.tables)) :
       /\ TableKeys(output.tables)[k] = tableName
       /\ pc = "data" => k < output.i

\* C19: for every table the strategies are applied in their fixed order;
\* each one applied before the last gave no row; when the last one applied
\* gave a row, its rows are the table's dataset, no later strategy was
\* applied and the recovery pass did not run; the recovery pass ran only
\* after all strategies were applied and gave no row
C19_FirstYieldingStrategy ==
  \A i \in 1..Len(DumpTables) :
    Extracted(DumpTables[i]) =>
      LET table == output.tables[DumpTables[i]]
          statements == StatementsOf(input, DumpTables[i])
          n == Len(table.tried)
      IN  /\ n \in 1..Len(insertPatterns)
          /\ \A k \in 1..n :
               /\ table.tried[k].pattern = insertPatterns[k]
               /\ table.tried[k].rows
                    = Len(extractTableData(Captures(insertPatterns[k], statements),
                                           table.columns))
               /\ k < n => table.tried[k].rows = 0
          /\ table.tried[n].rows > 0
               => /\ table.data = extractTableData(Captures(insertPatterns[n], statements),
                                                   table.columns)
                  /\ ~table.recovery
          /\ table.tried[n].rows = 0 => n = Len(insertPatterns)
          /\ table.recovery
               => /\ n = Len(insertPatterns)
                  /\ \A k \in 1..n : table.tried[k].rows = 0

\* a table whose dataset is the rows of the fourth strategy, after the first
\* three gave none
C19_Witness ==
  /\ Extracted(DumpTables[1])
  /\ Len(output.tables[DumpTables[1]].tried) = Len(insertPatterns)
  /\ output.tables[DumpTables[1]].tried[Len(insertPatterns)].rows > 0
  /\ output.tables[DumpTables[1]].data # <<>>

\* a table for which the recovery pass ran
C19_RecoveryRan ==
  /\ Extracted(DumpTables[1])
  /\ output.tables[DumpTables[1]].recovery


\* the first value of a row: of a row object, or of an array of values
FirstValue(row) ==
  IF "t" \in DOMAIN row THEN row.items[1] ELSE row[DeclaredColumns[1]]

\* the tuple a row comes from, by the number its first value starts with
\* (the first field of every tuple of the dump is such a number)
RowOrigin(row) ==
  LET v == FirstValue(row)
  IN  IF v.t = "number" THEN v.n
      ELSE DigitValue(v.chars[CHOOSE k \in 1..Len(v.chars) :
                                /\ v.chars[k] \in DigitChars
                                /\ \A j \in 1..(k - 1) : v.chars[j] \notin DigitChars])

RECURSIVE SourceOrder(_)
\* the first fields of the tuples of the statements, in the order of the text
SourceOrder(statements) ==
  IF statements = <<>> THEN <<>>
  ELSE [k \in 1..Len(Head(statements).tuples) |-> DigitValue(Head(statements).tuples[k][1])]
       \o SourceOrder(Tail(statements))

RECURSIVE IsSubsequence(_, _)
\* a is b with some of its elements left out
IsSubsequence(a, b) ==
  IF a = <<>> THEN TRUE
  ELSE IF b = <<>> THEN FALSE
  ELSE IF Head(a) = Head(b) THEN IsSubsequence(Tail(a), Tail(b))
  ELSE IsSubsequence(a, Tail(b))

\* the rows of a dataset are in the order of the source
InSourceOrder(data, statements) ==
  IsSubsequence([k \in 1..Len(data) |-> RowOrigin(data[k])], SourceOrder(statements))

\* C20: in every table's dataset the rows are in the order in which their
\* statements, and their tuples inside each statement, stand in the dump:
\* in the datasets of parseSqlDump and in those of parseSQLFile
C20_RowsInSourceOrder ==
  /\ pc \in {"data", "save", "done"}
       => \A i \in 1..Len(DumpTables) :
            DumpTables[i] \in DOMAIN output.tables
              => InSourceOrder(output.tables[DumpTables[i]].data,
                               StatementsOf(input, DumpTables[i]))
  /\ pc = "parseSQLFile"
       => \A i \in 1..Len(DumpTables) :
            DumpTables[i] \in DOMAIN output.tablesData
              => InSourceOrder(output.tablesData[DumpTables[i]],
                               SelectSeq(DumpLines(input, 1), LAMBDA l : l.kind = "insert"))

\* a dataset of three rows from two statements, from the second tuple of
\* the first statement and from the second statement among them
C20_Witness ==
  /\ pc = "done"
  /\ DumpTables[1] \in DOMAIN output.files
  /\ Len(input.statements) = 2
  /\ Len(input.statements[1].tuples) = 2
  /\ Len(output.files[DumpTables[1]]) = 3

(***************************************************************************)
(* Part 4: processBatch, one step for each item of a batch and one for    *)
(* the write of a batch (SpecBatch).                                       *)
(***************************************************************************)
MaxItems == 3
MaxBatchSize == 2

\* writeBatch commits at most this many operations in one Firestore batch
BATCH_LIMIT == 490

\* what processFn does with an item: it throws, returns null, an object with
\* docId and data, a whole operation, or an array of operations
ItemKinds == {"throws", "null", "docId", "operation", "array"}

\* the items: item i has the id i
ItemsOf(kinds) == [i \in 1..Len(kinds) |-> [id |-> i, kind |-> kinds[i]]]

createDocumentOperation(collection, docId, data) ==
  [collection |-> collection, docId |-> docId, data |-> data]

\* await processFn(item): the result, or the exception
processFn(item) ==
  LET docId == "doc" \o NumberToString(item.id)
      data == [id |-> item.id]
  IN  CASE item.kind = "throws" -> [threw |-> TRUE, result |-> JsNull]
        [] item.kind = "null" -> [threw |-> FALSE, result |-> JsNull]
        [] item.kind = "docId" ->
             [threw |-> FALSE, result |-> [docId |-> docId, data |-> data]]
        [] item.kind = "operation" ->
             [threw |-> FALSE,
              result |-> createDocumentOperation("logs", docId, data)]
        [] item.kind = "array" ->
             [threw |-> FALSE,
              result |-> JsArray(<<createDocumentOperation("logs", docId, data),
                                   createDocumentOperation("stats", docId, data)>>)]

\* the operations processBatch makes of a result of processFn; collection is
\* Null when the option is not given
ResultOperations(result, collection) ==
  IF result = JsNull THEN <<>>
  ELSE IF "t" \in DOMAIN result /\ result.t = "array" THEN result.items
  ELSE IF {"docId", "data"} \subseteq DOMAIN result /\ collection # Null
       THEN <<createDocumentOperation(collection, result.docId, result.data)>>
  ELSE IF {"collection", "docId", "data"} \subseteq DOMAIN result
       THEN <<result>>
  ELSE <<>>

\* the batches: items.slice(i, i + batchSize) for i = 0, batchSize, ...
Batches(items, batchSize) ==
  [b \in 1..((Len(items) + batchSize - 1) \div batchSize) |->
     SubSeq(items, (b - 1) * batchSize + 1, Min(b * batchSize, Len(items)))]

\* the result of processBatch without items
NoItemsResult ==
  [processedCount |-> 0, operationsCount |-> 0, errors |-> <<>>,
   operations |-> <<>>]

\* processBatch before its first batch; firestore holds the batches that
\* were committed and attempts the calls of writeBatch
BatchStart ==
  [b |-> 1, k |-> 1, batchOperations |-> <<>>, operations |-> <<>>,
   errors |-> <<>>, processedCount |-> 0, firestore |-> <<>>,
   attempts |-> <<>>, result |-> NoItemsResult]

(* (mutant) an item whose transform threw is counted as processed *)
AfterItemCountsThrown(o, item, collection) ==
  LET r == processFn(item)
  IN  IF r.threw
      THEN [o EXCEPT !.errors = Append(@, [item |-> item, error |-> "processFn"]),
                     !.processedCount = @ + 1]
      ELSE [o EXCEPT !.batchOperations = @ \o ResultOperations(r.result, collection),
                     !.processedCount = @ + 1]

\* the body of the loop over the items of a batch
AfterItem(o, item, collection) ==
  LET r == processFn(item)
  IN  IF r.threw
      THEN [o EXCEPT !.errors = Append(@, [item |-> item, error |-> "processFn"])]
      ELSE [o EXCEPT !.batchOperations = @ \o ResultOperations(r.result, collection),
                     !.processedCount = @ + 1]

\* the Firestore batches writeBatch fills with set and commits
Chunks(operations) ==
  [c \in 1..((Len(operations) + BATCH_LIMIT - 1) \div BATCH_LIMIT) |->
     SubSeq(operations, (c - 1) * BATCH_LIMIT + 1,
            Min(c * BATCH_LIMIT, Len(operations)))]

\* writeBatch(operations, options); ok: the commits succeed
writeBatch(firestore, operations, options, ok) ==
  IF Len(operations) = 0 THEN [firestore |-> firestore, threw |-> FALSE]
  ELSE IF options.dryRun THEN [firestore |-> firestore, threw |-> FALSE]
  ELSE IF ok THEN [firestore |-> firestore \o Chunks(operations), threw |-> FALSE]
  ELSE [firestore |-> firestore, threw |-> TRUE]

\* the errors a failed write adds, one for each operation of the batch
WriteErrors(batchOperations) ==
  [n \in 1..Len(batchOperations) |->
     [item |-> [collection |-> batchOperations[n].collection,
                docId |-> batchOperations[n].docId],
      error |-> "writeBatch"]]

(* (mutant) the batch is written in a dry run too *)
AfterBatchWritesInDryRun(o, dryRun, ok) ==
  LET w == writeBatch(o.firestore, o.batchOperations, [dryRun |-> FALSE], ok)
  IN  [o EXCEPT !.operations = @ \o o.batchOperations,
                !.firestore = w.firestore,
                !.errors = IF w.threw THEN @ \o WriteErrors(o.batchOperations)
                           ELSE @,
                !.attempts = Append(@, [batch |-> o.b, ok |-> ok,
                                        operations |-> o.batchOperations])]

\* after the items of a batch: its operations are added to the total and,
\* unless there are none or this is a dry run, written
AfterBatch(o, dryRun, ok) ==
  IF Len(o.batchOperations) > 0 /\ ~dryRun
  THEN LET w == writeBatch(o.firestore, o.batchOperations, [dryRun |-> dryRun], ok)
       IN  [o EXCEPT !.operations = @ \o o.batchOperations,
                     !.firestore = w.firestore,
                     !.errors = IF w.threw THEN @ \o WriteErrors(o.batchOperations)
                                ELSE @,
                     !.attempts = Append(@, [batch |-> o.b, ok |-> ok,
                                             operations |-> o.batchOperations])]
  ELSE [o EXCEPT !.operations = @ \o o.batchOperations]

\* processBatch(items, processFn, {batchSize, collection, dryRun}) is called
ProcessBatch ==
  /\ pc = "processBatch"
  /\ pc' = IF Len(input.items) = 0 THEN "done" ELSE "item"
  /\ output' = BatchStart
  /\ UNCHANGED input
  /\ UNCHANGED mapperVars
  /\ UNCHANGED migrationVars

\* the next item of the batch is processed
ProcessItem ==
  /\ pc = "item"
  /\ LET batch == Batches(input.items, input.batchSize)[output.b]
     IN  /\ output' = [AfterItem(output, batch[output.k], input.collection)
                         EXCEPT !.k = @ + 1]
         /\ pc' = IF output.k = Len(batch) THEN "write" ELSE "item"
  /\ UNCHANGED input
  /\ UNCHANGED mapperVars
  /\ UNCHANGED migrationVars

\* the operations of the batch are written, with or without success
WriteBatch ==
  /\ pc = "write"
  /\ \E ok \in BOOLEAN :
       output' = [AfterBatch(output, input.dryRun, ok)
                    EXCEPT !.b = @ + 1, !.k = 1, !.batchOperations = <<>>]
  /\ pc' = IF output.b = Len(Batches(input.items, input.batchSize))
           THEN "return" ELSE "item"
  /\ UNCHANGED input
  /\ UNCHANGED mapperVars
  /\ UNCHANGED migrationVars

\* processBatch returns its summary
ReturnResult ==
  /\ pc = "return"
  /\ pc' = "done"
  /\ output' = [output EXCEPT
                  !.result = [processedCount |-> output.processedCount,
                              operationsCount |-> Len(output.operations),
                              errors |-> output.errors,
                              operations |-> output.operations]]
  /\ UNCHANGED input
  /\ UNCHANGED mapperVars
  /\ UNCHANGED migrationVars

\* the calls of processBatch: items, batch size, collection option, dry run
BatchCalls ==
  {[items |-> ItemsOf(kinds), batchSize |-> n, collection |-> c, dryRun |-> d] :
     kinds \in UNION {[1..l -> ItemKinds] : l \in 0..MaxItems},
     n \in 1..MaxBatchSize, c \in {"users", Null}, d \in BOOLEAN}

InitBatch ==
  /\ InitMapper
  /\ InitMigration
  /\ tables = NoRows
  /\ pc = "processBatch"
  /\ output = EmptyObject
  /\ input \in BatchCalls

NextBatch == ProcessBatch \/ ProcessItem \/ WriteBatch \/ ReturnResult

SpecBatch == InitBatch /\ [][NextBatch]_vars

(***************************************************************************)
(* Part 5: a run of the entry point over all collections, one step for    *)
(* each row a migration transforms (SpecOrder).                            *)
(***************************************************************************)
\* the entity type a collection's transform maps its own rows under
OwnEntity(collection) == collection

\* the entity types whose stable id MigrationStrategy.transform.user looks up
\* with getUUID for a user: the plan, when the user has an active plan
UserReferences(hasActivePlan) == IF hasActivePlan THEN <<"plans">> ELSE <<>>

\* the entity types whose stable id the transform of a collection looks up
\* with getUUID: transform.listing, transformReview, transformSubscription,
\* transformTransaction, transformChatroom, transformMessage
ReferencedEntities(collection, hasActivePlan) ==
  CASE collection = "users" -> UserReferences(hasActivePlan)
    [] collection = "plans" -> <<>>
    [] collection = "listings" -> <<"users">>
    [] collection = "reviews" -> <<"listings">>
    [] collection = "subscriptions" -> <<"users", "plans">>
    [] collection = "transactions" -> <<"users", "plans", "subscriptions", "listings">>
    [] collection = "chatrooms" -> <<"users", "listings">>
    [] collection = "messages" -> <<"chatrooms", "users">>

\* the transform of a row: its own id is created, the ids it refers to are
\* looked up; ran are the collections whose migration has ended
TransformRow(m, collection, row, hasActivePlan, ran) ==
  LET r == getOrCreateUUID(m, OwnEntity(collection), row.id, DefaultOptions, Null)
      referenced == ReferencedEntities(collection, hasActivePlan)
  IN  [m |-> r.m,
       lookups |-> [n \in 1..Len(referenced) |->
                      [collection |-> collection, entity |-> referenced[n],
                       uuid |-> getUUID(r.m, referenced[n], row.id),
                       ran |-> ran]]]

\* runMigration with --all: the collections to migrate are MIGRATION_ORDER
StartAll ==
  /\ pc = "runMigration"
  /\ pc' = "next"
  /\ todo' = MIGRATION_ORDER
  /\ output' = [running |-> Null, k |-> 1, finished |-> <<>>, lookups |-> <<>>]
  /\ UNCHANGED <<input, tables, docs, pos, obs>>
  /\ UNCHANGED mapperVars

\* the loop takes the next collection and awaits its migrate
StartMigrate ==
  /\ pc = "next"
  /\ todo # <<>>
  /\ pc' = "migrate"
  /\ todo' = Tail(todo)
  /\ output' = [output EXCEPT !.running = Head(todo), !.k = 1]
  /\ UNCHANGED <<input, tables, docs, pos, obs>>
  /\ UNCHANGED mapperVars

\* the running migration transforms its next row
TransformItem ==
  /\ pc = "migrate"
  /\ output.k <= Len(input.rows)
  /\ LET row == input.rows[output.k]
         r == TransformRow(M, output.running, row, row.id.n \in input.activePlans,
                           {output.finished[n].collection :
                              n \in 1..Len(output.finished)})
     IN  /\ idMappings' = r.m.idMappings
         /\ reverseIdMappings' = r.m.reverseIdMappings
         /\ output' = [output EXCEPT !.k = @ + 1, !.lookups = @ \o r.lookups]
  /\ UNCHANGED <<file, last, returned, saved>>
  /\ UNCHANGED <<pc, input>>
  /\ UNCHANGED migrationVars

\* migrate returns after its last row, or throws at any point; the loop logs
\* the outcome and goes on
EndMigrate ==
  /\ pc = "migrate"
  /\ \E ok \in BOOLEAN :
       /\ ok => output.k > Len(input.rows)
       /\ output' = [output EXCEPT
                       !.running = Null,
                       !.finished = Append(@, [collection |-> output.running,
                                               ok |-> ok])]
  /\ pc' = "next"
  /\ UNCHANGED <<input, todo, tables, docs, pos, obs>>
  /\ UNCHANGED mapperVars

\* no collection is left: the migration is complete
Complete ==
  /\ pc = "next"
  /\ todo = <<>>
  /\ pc' = "complete"
  /\ UNCHANGED <<input, output>>
  /\ UNCHANGED migrationVars
  /\ UNCHANGED mapperVars

\* the dumps of these runs: every table has the rows with the same ids, and
\* some of the users have an active plan
MaxOrderRows == 1

OrderInputs ==
  {[rows |-> RowsWithIds(S), activePlans |-> A] :
     S \in SUBSET (1..MaxOrderRows) \ {{}}, A \in SUBSET (1..MaxOrderRows)}

InitOrder ==
  /\ InitMapper
  /\ InitMigration
  /\ tables = NoRows
  /\ pc = "runMigration"
  /\ output = EmptyObject
  /\ input \in {i \in OrderInputs : i.activePlans \subseteq
                                      {i.rows[n].id.n : n \in 1..Len(i.rows)}}

NextOrder == StartAll \/ StartMigrate \/ TransformItem \/ EndMigrate \/ Complete

SpecOrder == InitOrder /\ [][NextOrder]_vars

(***************************************************************************)
(* Part 6: the field splitters of the two parsers on one row text          *)
(* (SpecFields).                                                           *)
(***************************************************************************)
MaxRowLen == 6

\* the characters of the row texts: a digit, the comma, the quote and the
\* backslash
RowChars == {"1", ",", "'", "\\"}

RowTexts == UNION {[1..n -> RowChars] : n \in 1..MaxRowLen}

InitFields ==
  /\ InitMapper
  /\ InitMigration
  /\ tables = NoRows
  /\ pc = "row"
  /\ output = EmptyObject
  /\ \E rowText \in RowTexts : input = [rowText |-> rowText]

\* the dump parser splits the row text
ParseValuesComplex ==
  /\ pc = "row"
  /\ pc' = "parseValuesComplex"
  /\ output' = [values |-> parseValuesComplex(input.rowText)]
  /\ UNCHANGED input
  /\ UNCHANGED mapperVars
  /\ UNCHANGED migrationVars

\* the transformer's parser splits the row text
ParseRowValues ==
  /\ pc = "row"
  /\ pc' = "parseRowValues"
  /\ output' = [values |-> parseRowValues(input.rowText)]
  /\ UNCHANGED input
  /\ UNCHANGED mapperVars
  /\ UNCHANGED migrationVars

NextFields == ParseValuesComplex \/ ParseRowValues

SpecFields == InitFields /\ [][NextFields]_vars

(***************************************************************************)
(* Claims about runs of parseSqlDump (SpecRun).                            *)
(***************************************************************************)
\* the datasets a run of parseSqlDump writes when the dump can be read: one
\* for each requested table with a CREATE TABLE block, from the data loop
WrittenDatasets(run) ==
  [t \in {DumpTables[i] : i \in 1..Len(DumpTables)} \ run.missing |->
     DataLoopRound(run.config, t, StatementsOf(run, t),
                   extractTableSchema(run, t).columns).table.data]

\* C21: the datasets a finished run of parseSqlDump has written are those
\* of the run on the same dump and table list with the diagnostics
\* switches verbose and logInsertStatements set in any other way
C21_SwitchesKeepDatasets ==
  (pc = "done" /\ input.readable)
    => \A c \in Switches :
         WrittenDatasets([input EXCEPT !.config = c]) = output.files

\* a run with both switches off is done and has written a dataset with a
\* row, and its diagnostics have no entry for the statements found
C21_Witness ==
  /\ pc = "done"
  /\ input.readable
  /\ input.config = [verbose |-> FALSE, logInsertStatements |-> FALSE]
  /\ Len(output.files[DumpTables[1]]) > 0
  /\ \A k \in 1..Len(output.diagnostics) :
       "found" \notin DOMAIN output.diagnostics[k]

\* C22: when the dump file cannot be read, the call of parseSqlDump ends in
\* an error outcome and no dataset is written
C22_ReadFailureIsHardFailure ==
  (pc = "done" /\ ~input.readable)
    => /\ output.outcome = "rejected"
       /\ output.files = EmptyObject

\* the dump file could not be read and the call of parseSqlDump has
\* completed normally, without a dataset
C22_ReadFailureResolves ==
  /\ pc = "done"
  /\ ~input.readable
  /\ output.outcome = "resolved"
  /\ output.files = EmptyObject

\* C23: a run of parseSqlDump that has ended has written the diagnostics
\* file, with the diagnostics it collected
C23_DiagnosticsWrittenAtEnd ==
  (pc = "done" /\ output.outcome # "running")
    => /\ output.artifact.written
       /\ output.artifact.content = output.diagnostics

\* a run whose dump could not be read has ended with the diagnostics file
\* written, the error in it
C23_Witness ==
  /\ pc = "done"
  /\ ~input.readable
  /\ output.artifact.written
  /\ [table |-> "", error |-> TRUE]
       \in {output.artifact.content[k] : k \in 1..Len(output.artifact.content)}

\* a run with a table that yielded no rows has ended with the diagnostics
\* file written
C23_NoRowsWitness ==
  /\ pc = "done"
  /\ input.readable
  /\ \E t \in DOMAIN output.files : output.files[t] = <<>>
  /\ output.artifact.written

(***************************************************************************)
(* Claims about processBatch (SpecBatch).                                  *)
(***************************************************************************)
RECURSIVE GeneratedOperations(_, _)
\* the operations the results of the transforms of the items give, in order
GeneratedOperations(items, collection) ==
  IF items = <<>> THEN <<>>
  ELSE (IF processFn(Head(items)).threw THEN <<>>
        ELSE ResultOperations(processFn(Head(items)).result, collection))
       \o GeneratedOperations(Tail(items), collection)

\* C24: in a processBatch run with dryRun true no Firestore batch is ever
\* filled with a set or committed, and the run returns the operations that
\* the transforms of its items generated
C24_DryRunWritesNothing ==
  (pc # "processBatch" /\ input.dryRun)
    => /\ output.firestore = <<>>
       /\ output.attempts = <<>>
       /\ pc = "done"
            => output.result.operations
                 = GeneratedOperations(input.items, input.collection)

\* a dry run over several batches has returned operations and written none
C24_Witness ==
  /\ pc = "done"
  /\ input.dryRun
  /\ Len(Batches(input.items, input.batchSize)) > 1
  /\ Len(output.result.operations) > 1
  /\ output.firestore = <<>>

\* the errors of the result that come from a throwing transform
TransformErrors == SelectSeq(output.result.errors, LAMBDA e : e.error = "processFn")

\* the errors of the result that come from a failed write
BatchWriteErrors == SelectSeq(output.result.errors, LAMBDA e : e.error = "writeBatch")

RECURSIVE FailedOperations(_)
\* the number of operations of the writes that failed
FailedOperations(attempts) ==
  IF attempts = <<>> THEN 0
  ELSE (IF Head(attempts).ok THEN 0 ELSE Len(Head(attempts).operations))
       + FailedOperations(Tail(attempts))

\* the batches with an operation, in order
WritableBatches ==
  SelectSeq([b \in 1..Len(Batches(input.items, input.batchSize)) |-> b],
            LAMBDA b : GeneratedOperations(Batches(input.items, input.batchSize)[b],
                                           input.collection) # <<>>)

\* C30: when processBatch has returned, processedCount plus the number of
\* errors of throwing transforms is the number of items, every item's
\* transform has either thrown or been counted, a failed write has added one
\* error for each operation of its batch, and every batch with an operation
\* was written (unless in a dry run) whether or not an earlier write failed
C30_EveryItemAccountedOnce ==
  pc = "done"
    => /\ output.result.processedCount + Len(TransformErrors) = Len(input.items)
       /\ \A i \in 1..Len(input.items) :
            processFn(input.items[i]).threw
              <=> \E n \in 1..Len(TransformErrors) :
                    TransformErrors[n].item = input.items[i]
       /\ Len(BatchWriteErrors) = FailedOperations(output.attempts)
       /\ ~input.dryRun
            => [n \in 1..Len(output.attempts) |-> output.attempts[n].batch]
                 = WritableBatches
       /\ output.result.operations
            = GeneratedOperations(input.items, input.collection)

\* the write of the first of several batches failed, a later batch was
\* written, and a transform threw
C30_Witness ==
  /\ pc = "done"
  /\ Len(output.attempts) > 1
  /\ ~output.attempts[1].ok
  /\ output.attempts[Len(output.attempts)].ok
  /\ Len(TransformErrors) > 0
  /\ output.result.processedCount + Len(TransformErrors) = Len(input.items)

\* a transform returned null, another threw and a write failed
C30_SkippedItemWitness ==
  /\ pc = "done"
  /\ \E i \in 1..Len(input.items) : input.items[i].kind = "null"
  /\ Len(TransformErrors) > 0
  /\ Len(BatchWriteErrors) > 0
  /\ output.result.processedCount = Len(input.items) - 1

(***************************************************************************)
(* Claims about the order of the migrations (SpecOrder).                   *)
(***************************************************************************)
\* the collections before the n-th of MIGRATION_ORDER
EarlierCollections(n) == {MIGRATION_ORDER[j] : j \in 1..(n - 1)}

\* the collections whose migrate has returned or thrown
Ended == {output.finished[n].collection : n \in 1..Len(output.finished)}

\* while a collection's migrate runs, the migrations of exactly the earlier
\* collections of MIGRATION_ORDER have ended
C25_MigrationsSequential ==
  pc = "migrate"
    => \E n \in 1..Len(MIGRATION_ORDER) :
         /\ output.running = MIGRATION_ORDER[n]
         /\ Ended = EarlierCollections(n)

\* every entity type that was looked up had its migration ended before
LookupsAfterMapping ==
  \A n \in 1..Len(output.lookups) :
    output.lookups[n].entity \in output.lookups[n].ran

RECURSIVE LiteralEnd(_, _)
\* the position of the quote that closes the string literal whose inside
\* starts at i (a backslash escapes the next character, a doubled quote
\* stands for a quote), or 0 when the literal is not closed
LiteralEnd(text, i) ==
  IF i > Len(text) THEN 0
  ELSE IF text[i] = "\\" THEN LiteralEnd(text, i + 2)
  ELSE IF text[i] = "'"
  THEN IF i < Len(text) /\ text[i + 1] = "'" THEN LiteralEnd(text, i + 2) ELSE i
  ELSE LiteralEnd(text, i + 1)

RECURSIVE TopLevelCommas(_, _)
\* the positions from i on of the commas outside string literals; 0 is among
\* them when a literal is not closed
TopLevelCommas(text, i) ==
  IF i > Len(text) THEN {}
  ELSE IF text[i] = "'"
  THEN IF LiteralEnd(text, i + 1) = 0 THEN {0}
       ELSE TopLevelCommas(text, LiteralEnd(text, i + 1) + 1)
  ELSE IF text[i] = "," THEN {i} \cup TopLevelCommas(text, i + 1)
  ELSE TopLevelCommas(text, i + 1)

\* the text is a field: a numeral, or one string literal
IsField(text) ==
  /\ text # <<>>
  /\ \/ \A i \in 1..Len(text) : text[i] = "1"
     \/ text[1] = "'" /\ LiteralEnd(text, 2) = Len(text)

\* the row text is a list of fields separated by top-level commas
IsRowText(text) ==
  LET commas == TopLevelCommas(text, 1)
      cuts == commas \cup {0, Len(text) + 1}
  IN  /\ 0 \notin commas
      /\ \A a, b \in cuts :
           (a < b /\ \A c \in cuts : ~(a < c /\ c < b))
             => IsField(SubSeq(text, a + 1, b - 1))

\* C26: of a row text that is a list of fields, both splitters return one
\* value for each field: one more than the commas outside string literals,
\* also when a field is the empty string literal, also as the last field,
\* and when a string holds a comma or an escaped character
C26_OneFieldPerTopLevelComma ==
  (pc \in {"parseValuesComplex", "parseRowValues"} /\ IsRowText(input.rowText))
    => Len(output.values) = Cardinality(TopLevelCommas(input.rowText, 1)) + 1

\* the row 1,'' has two fields and the dump parser's splitter returned one
\* value: the empty string literal at the end is dropped
C26_EmptyLiteralLastDropped ==
  /\ pc = "parseValuesComplex"
  /\ input.rowText = <<"1", ",", "'", "'">>
  /\ Cardinality(TopLevelCommas(input.rowText, 1)) = 1
  /\ Len(output.values) = 1

\* the row '\\',1 has two fields, a string of one backslash and a numeral,
\* and the transformer's splitter returned one value
C26_EscapedBackslashMergesFields ==
  /\ pc = "parseRowValues"
  /\ input.rowText = <<"'", "\\", "\\", "'", ",", "1">>
  /\ IsRowText(input.rowText)
  /\ Len(output.values) = 1

\* the dump parser's splitter keeps a comma inside a string in its field
C26_QuotedCommaKept ==
  /\ pc = "parseValuesComplex"
  /\ input.rowText = <<"'", ",", "'", ",", "1">>
  /\ IsRowText(input.rowText)
  /\ Len(output.values) = 2

(***************************************************************************)
(* Claims about getUUID followed by getOrCreateUUID (SpecCalls).           *)
(***************************************************************************)
\* what getOrCreateUUID returns when it is called next, for the entity type
\* and source id of the last call
NextGetOrCreate ==
  getOrCreateUUID(M, last.entity, last.oldId, DefaultOptions, Null).ret

\* C27: when getUUID(entityType, sourceId) has just returned a stable id,
\* getOrCreateUUID(entityType, sourceId), called next, returns the same id,
\* also for a listing variant that getUUID answered from the listings table
C27_GetOrCreateAgreesWithGet ==
  (last.op = "get" /\ last.ok) => NextGetOrCreate = last.uuid

\* getUUID('franchise', id) has returned the listing's id from the listings
\* table, the franchise table has no entry for id, and getOrCreateUUID would
\* return the new id made from 'franchise:id'
C27_AliasFallbackDisagrees ==
  /\ last.op = "get"
  /\ last.ok
  /\ last.entity = "franchise"
  /\ ~Truthy(idMappings["franchise"], String(last.oldId))
  /\ last.uuid = idMappings["listings"][String(last.oldId)]
  /\ NextGetOrCreate
       = uuidv5("franchise:" \o String(last.oldId), UUID_NAMESPACE)
  /\ NextGetOrCreate # last.uuid

\* C27 for the calls getUUID answered from the table of the entity type
C27_DirectGetAgrees ==
  (/\ last.op = "get"
   /\ last.ok
   /\ Truthy(idMappings[last.entity], String(last.oldId)))
    => NextGetOrCreate = last.uuid

(***************************************************************************)
(* Claims about the document ids of the listings migration (SpecConc).     *)
(***************************************************************************)
\* the transforms done so far: the task and the position of the row
Transformed == {<<task, n>> : task \in TaskNames, n \in 1..MaxId} \cap
               {p \in TaskNames \X (1..MaxId) : p[2] <= Len(obs[p[1]])}

\* C28: two distinct source listings, rows of different listing tables or
\* different rows of one table, never get the same Firestore document id
C28_DistinctListingsDistinctDocuments ==
  \A p, q \in Transformed :
    p # q => obs[p[1]][p[2]] # obs[q[1]][q[2]]

\* a business, a franchise and an investor with the same source id were
\* transformed and all three got the document id made from 'listings:id'
C28_SharedIdSharedDocument ==
  /\ \A task \in TaskNames : Len(obs[task]) > 0
  /\ SourceData("businesses")[1].id = SourceData("franchises")[1].id
  /\ SourceData("businesses")[1].id = SourceData("investors")[1].id
  /\ \A task \in TaskNames :
       obs[task][1]
         = uuidv5("listings:" \o String(SourceData("businesses")[1].id),
                  UUID_NAMESPACE)

\* C28 for the rows of one table: different rows get different document ids
C28_SameTableDistinctDocuments ==
  \A task \in TaskNames :
    \A i, j \in 1..Len(obs[task]) : i # j => obs[task][i] # obs[task][j]

(***************************************************************************)
(* Claims about the reverse tables after calls (SpecCalls).                *)
(***************************************************************************)
\* the forward and the reverse table of an entity type
ForwardOf(e) == IF e \in DOMAIN idMappings THEN idMappings[e] ELSE EmptyObject

ReverseOf(e) ==
  IF e \in DOMAIN reverseIdMappings THEN reverseIdMappings[e] ELSE EmptyObject

\* the reverse table of the entity type has an entry for a stable id that
\* the source id of the entry is no longer mapped to
StaleReverse(e) ==
  \E u \in DOMAIN ReverseOf(e) :
    /\ ReverseOf(e)[u] \in DOMAIN ForwardOf(e)
    /\ ForwardOf(e)[ReverseOf(e)[u]] # u
    /\ getOriginalId(M, e, u) = ReverseOf(e)[u]

\* C29: after any calls of getOrCreateUUID and setUUID with default options
\* the reverse table of every entity type is the inverse of its forward
\* table, and getOriginalId returns no source id that is now mapped to
\* another stable id
C29_ReverseIsInverseAfterCalls ==
  \A e \in EntityKeys(idMappings) \cup DOMAIN reverseIdMappings :
    /\ \A u \in DOMAIN ReverseOf(e) :
         ReverseOf(e)[u] \in DOMAIN ForwardOf(e) /\ ForwardOf(e)[ReverseOf(e)[u]] = u
    /\ \A s \in DOMAIN ForwardOf(e) :
         ForwardOf(e)[s] \in DOMAIN ReverseOf(e) /\ ReverseOf(e)[ForwardOf(e)[s]] = s
    /\ ~StaleReverse(e)

\* setUUID has replaced the stable id of a mapped source id and the reverse
\* entry of the replaced id is still there: getOriginalId returns the source
\* id for it
C29_StaleAfterOverwrite ==
  /\ last.op = "set"
  /\ last.ok
  /\ ForwardOf(last.entity)[String(last.oldId)] = last.uuid
  /\ StaleReverse(last.entity)

\* getOrCreateUUID of a listing variant has replaced the entry of the
\* listings table and left the reverse entry of the replaced id
C29_StaleAfterMirror ==
  /\ last.op = "getOrCreate"
  /\ StaleReverse("listings")
====
